---- MODULE Spec2Model ----
(***************************************************************************)
(* State-machine model of THE OVERMIND PROTOCOL trading pipeline:          *)
(*   StrategyEngine -> RiskManager -> Executor -> PersistenceManager       *)
(* and of the multi-wallet variant (WalletManager + MultiWalletExecutor).  *)
(*                                                                         *)
(* Numbers.  The program computes in f64; the model uses exact integers:   *)
(*   confidence            percent            (0.6  -> 60)                 *)
(*   fees                  1e-4 of a unit     (notional * 0.001 -> * 10)   *)
(*   executed_price        1e-3 of a unit     (price * 1.005 -> * 1005)    *)
(*   risk_score            1e-3 * max_position_size (exact rational)       *)
(*   wallet score          1/20 of a point    (score * 20)                 *)
(***************************************************************************)
EXTENDS Integers, Sequences, FiniteSets, TLC

VARIABLES
    trading_mode,        \* Executor.trading_mode / MultiWalletExecutor.trading_mode
    hft_mode_enabled,    \* Executor.hft_mode_enabled
    signal_queue,        \* channel StrategyEngine -> RiskManager (signal_tx/signal_rx)
    execution_queue,     \* channel RiskManager -> Executor (execution_tx/execution_rx)
    persistence_queue,   \* channel Executor -> PersistenceManager
    daily_pnl,           \* RiskManager.daily_pnl
    metrics,             \* OvermindHFTEngine.metrics (HFTMetrics)
    next_signal_id,      \* number of signals created so far (ids are fresh uuids)
    taken,               \* history: ids of the ApprovedSignals the executor received
    sent,                \* history: the signal_id of every ExecutionResult sent
    rejected,            \* history: ids of the signals evaluate_signal turned down
    last_exec,           \* history: the executor's most recent execution
    wallets,             \* WalletManager.wallets
    wallet_metrics,      \* WalletManager.wallet_metrics
    strategy_wallet_mapping, \* WalletManager.strategy_wallet_mapping
    default_wallet_id,   \* WalletManager.default_wallet_id
    fallback_wallet_id,  \* MultiWalletExecutor.fallback_wallet_id
    mw_pc,               \* where MultiWalletExecutor::process_signal stands
    mw_routed,           \* the RoutedSignal being processed
    mw_last,             \* history: routing facts of the signal being processed
    last_selection,      \* history: the most recent WalletManager::select_wallet call
    admin_calls,         \* number of registry-changing calls made so far
    execution_stats,     \* MultiWalletExecutor.execution_stats
    market_data_queue,   \* channel DataIngestor -> StrategyEngine (market_data_tx/rx)
    ticks_sent,          \* number of MarketData messages the DataIngestor has sent
    signal_times,        \* history: the value of ticks_sent at each signal of the strategy
    slippage_call,       \* history: the most recent calculate_slippage call, if any
    task,                \* main's five spawned tasks: where each of them stands
    main_pc,             \* where main stands at its try_join!
    in_flight,           \* the ApprovedSignal the executor has received and not yet answered
    trading_commands,    \* the list "overmind:trading_commands" in the queue store
    commands_pushed,     \* number of commands the external decision process has pushed
    decision_queue,      \* channel AIConnector -> consumer of its signals (decision_sender)
    decision_rx_open,    \* the receiver of that channel has not been dropped
    is_connected,        \* AIConnector.is_connected
    listener_pc,         \* where the task of run_brain_listener stands
    monitor_pc,          \* where the task of run_health_monitor stands
    last_listen,         \* history: the listener's most recent turn
    bridge_failed,       \* history: some turn of the listener or the monitor has failed
    call,                \* the WalletManager method each concurrent caller is in, or "idle"
    held,                \* how many guards of its method each caller has acquired
    lock_holders,        \* per RwLock of the WalletManager: the callers holding a guard
    lock_queue,          \* per RwLock: the callers waiting for a guard, in arrival order
    calls_started        \* number of concurrent calls started so far

vars == <<trading_mode, hft_mode_enabled, signal_queue, execution_queue,
          persistence_queue, daily_pnl, rejected, metrics, next_signal_id, taken,
          sent, last_exec, wallets, wallet_metrics, strategy_wallet_mapping,
          default_wallet_id, fallback_wallet_id, mw_pc, mw_routed, mw_last,
          last_selection, admin_calls, execution_stats, market_data_queue,
          ticks_sent, task, main_pc, in_flight, trading_commands, commands_pushed,
          decision_queue, decision_rx_open, is_connected, listener_pc, monitor_pc,
          last_listen, bridge_failed, call, held, lock_holders, lock_queue,
          calls_started, signal_times, slippage_call>>

pipeline_vars == <<signal_queue, execution_queue, persistence_queue, daily_pnl, rejected,
                   next_signal_id, taken, sent, last_exec, metrics>>

wallet_vars == <<wallets, wallet_metrics, strategy_wallet_mapping,
                 default_wallet_id, last_selection, admin_calls>>

mw_vars == <<fallback_wallet_id, mw_pc, mw_routed, mw_last, execution_stats>>

ingest_vars == <<market_data_queue, ticks_sent, signal_times, slippage_call>>

sup_vars == <<task, main_pc, in_flight>>

bridge_vars == <<trading_commands, commands_pushed, decision_queue, decision_rx_open,
                 is_connected, listener_pc, monitor_pc, last_listen, bridge_failed>>

\* What the pipeline stages downstream of the StrategyEngine, the
\* WalletManager and the MultiWalletExecutor never touch.
lock_vars == <<call, held, lock_holders, lock_queue, calls_started>>

ext_vars == <<ingest_vars, sup_vars, bridge_vars, lock_vars>>

(***************************************************************************)
(* Bounds of the model                                                     *)
(***************************************************************************)
MaxSignals == 2
MaxAdminCalls == 2
MaxRouted == 1
MaxDaySignals == 3
QueueCapacity == 1
MaxTicks == 3
MaxSupSignals == 1
MaxCommands == 2

MaxCalls == 3

(***************************************************************************)
(* Program constants                                                       *)
(***************************************************************************)
max_position_size == 1000
max_daily_loss == 500
min_confidence_threshold == 60
ai_confidence_threshold == 70
max_execution_latency_ms == 25
emergency_stop_threshold == 10
max_decision_age == 30
confidence_threshold == 70

None == "none"

Min(a, b) == IF a < b THEN a ELSE b

(***************************************************************************)
(* Inputs                                                                  *)
(***************************************************************************)
Quantities == {0, 100, 1500}
Confidences == {59, 60}
Prices == {100}
StrategyTypes == {"TokenSniping", "Arbitrage"}

TradingSignal(id, q, p, c, st) ==
    [signal_id |-> id, action |-> "Buy", quantity |-> q, target_price |-> p,
     confidence |-> c, strategy_type |-> st]

(***************************************************************************)
(* RiskManager (risk.rs)                                                   *)
(***************************************************************************)
check_position_limits_uncapped(signal) == signal.quantity

check_position_limits(signal) ==
    IF signal.quantity > max_position_size
    THEN max_position_size
    ELSE signal.quantity

check_daily_loss_limits == daily_pnl > -max_daily_loss

strategy_risk_weight(st) ==
    CASE st = "TokenSniping" -> 300
      [] st = "Arbitrage" -> 100
      [] st = "MomentumTrading" -> 200
      [] st = "SoulMeteorSniping" -> 250
      [] st = "MeteoraDAMM" -> 800
      [] st = "DeveloperTracking" -> 700
      [] st = "AxiomMemeCoin" -> 900
      [] st = "AIDecision" -> 700

\* risk_score * 1000 * max_position_size
calculate_risk_score(signal) ==
    Min((100 - signal.confidence) * 4 * max_position_size
          + signal.quantity * 300
          + strategy_risk_weight(signal.strategy_type) * max_position_size,
        1000 * max_position_size)

confidence_rejected_strict(signal) == signal.confidence <= min_confidence_threshold

confidence_rejected(signal) == signal.confidence < min_confidence_threshold

\* The ApprovedSignals evaluate_signal sends: none when it rejects the signal.
evaluate_signal(signal) ==
    IF confidence_rejected(signal) THEN <<>>
    ELSE IF check_position_limits(signal) <= 0 THEN <<>>
    ELSE IF ~check_daily_loss_limits THEN <<>>
    ELSE <<[original_signal |-> signal,
            approved_quantity |-> check_position_limits(signal),
            risk_score |-> calculate_risk_score(signal)]>>

(***************************************************************************)
(* OvermindHFTEngine (hft_engine.rs)                                       *)
(***************************************************************************)
AIConfidences == {40, 70, 90}

\* What the inference endpoint may answer.  kind: "unreachable" (the request
\* fails), "http_error" (non-2xx), "no_text" (no content element of type text),
\* "not_json" (the text block is not JSON), "json" (a JSON object; confidence
\* may be absent, and so may other decision fields: complete = FALSE).
InferenceResponses ==
    {[kind |-> k, latency_ms |-> 5, has_confidence |-> FALSE, confidence |-> 0,
      complete |-> FALSE] : k \in {"unreachable", "http_error", "no_text", "not_json", "json"}}
    \cup {[kind |-> "json", latency_ms |-> 5, has_confidence |-> TRUE,
           confidence |-> c, complete |-> TRUE] : c \in AIConfidences}
    \cup {[kind |-> "json", latency_ms |-> 5, has_confidence |-> TRUE,
           confidence |-> 90, complete |-> FALSE]}
    \cup {[kind |-> "json", latency_ms |-> 20, has_confidence |-> TRUE,
           confidence |-> 90, complete |-> TRUE]}

\* What the bundle submitter may answer.  result: the "result" member of the
\* response when it is a string, None when it is absent or not a string.
BundleResponses ==
    {[kind |-> "ok", latency_ms |-> 10, result |-> r] : r \in {"b1", "", None}}
    \cup {[kind |-> "rejected", latency_ms |-> 10, result |-> None],
          [kind |-> "ok", latency_ms |-> 30, result |-> "b1"]}

HFTMetricsDefault ==
    [total_executions |-> 0, successful_executions |-> 0, failed_executions |-> 0,
     ai_decisions_made |-> 0, bundles_submitted |-> 0]

inference_deadline_ms == max_execution_latency_ms \div 3

bundle_deadline_ms == (max_execution_latency_ms * 2) \div 3

\* parse_ai_response on a JSON text block: absent fields take defaults.
parse_ai_response(inf) ==
    [confidence |-> IF inf.has_confidence THEN inf.confidence ELSE 0,
     action_type |-> IF inf.complete THEN "buy" ELSE "hold",
     defaulted |-> ~(inf.complete /\ inf.has_confidence)]

\* update_metrics (the rolling average latency is left out: no counter reads it).
update_metrics(m, success) ==
    [m EXCEPT !.total_executions = @ + 1,
              !.successful_executions = IF success THEN @ + 1 ELSE @,
              !.failed_executions = IF success THEN @ ELSE @ + 1]

HFTErr(m, phase) ==
    [kind |-> "Err", phase |-> phase, bundle_id |-> None, ai_confidence |-> 0,
     defaulted |-> FALSE, metrics |-> m]

ai_confidence_at_most(c) == c <= ai_confidence_threshold

ai_confidence_below(c) == c < ai_confidence_threshold

\* execute_ai_signal: the engine's answer and its metrics afterwards.
execute_ai_signal(m, inf, bun) ==
    IF inf.latency_ms > inference_deadline_ms THEN HFTErr(m, "inference_timeout")
    ELSE IF inf.kind \in {"unreachable", "http_error"} THEN HFTErr(m, "inference_error")
    ELSE LET m1 == [m EXCEPT !.ai_decisions_made = @ + 1]
             ai_signal == parse_ai_response(inf)
         IN IF inf.kind \in {"no_text", "not_json"} THEN HFTErr(m1, "inference_malformed")
            ELSE IF ai_confidence_below(ai_signal.confidence)
            THEN [kind |-> "Skipped", phase |-> "Low AI confidence", bundle_id |-> None,
                  ai_confidence |-> ai_signal.confidence,
                  defaulted |-> ai_signal.defaulted, metrics |-> m1]
            ELSE IF bun.latency_ms > bundle_deadline_ms THEN HFTErr(m1, "bundle_timeout")
            ELSE IF bun.kind = "rejected" THEN HFTErr(m1, "bundle_rejected")
            ELSE [kind |-> "Executed", phase |-> "done",
                  bundle_id |-> IF bun.result = None THEN "unknown" ELSE bun.result,
                  ai_confidence |-> ai_signal.confidence,
                  defaulted |-> ai_signal.defaulted,
                  metrics |-> update_metrics(
                      [m1 EXCEPT !.bundles_submitted = @ + 1], TRUE)]

\* execute_ai_signal reaches execute_jito_bundle only with a decision that was
\* received in time, parsed, and is confident enough.
reaches_bundle(inf) ==
    /\ inf.latency_ms <= inference_deadline_ms
    /\ inf.kind = "json"
    /\ ~ai_confidence_below(parse_ai_response(inf).confidence)

(***************************************************************************)
(* Executor (executor.rs, and its AI-aware variant)                        *)
(***************************************************************************)
ExecutionResult(id, tx, status, q, p, f, err) ==
    [signal_id |-> id, transaction_id |-> tx, status |-> status,
     executed_quantity |-> q, executed_price |-> p, fees |-> f,
     error_message |-> err]

execute_paper_trade(signal) ==
    ExecutionResult(signal.original_signal.signal_id, <<"paper", "uuid">>, "Confirmed",
        signal.approved_quantity, signal.original_signal.target_price * 1000,
        signal.approved_quantity * signal.original_signal.target_price * 10, None)

execute_live_trade(signal) ==
    ExecutionResult(signal.original_signal.signal_id, <<"uuid">>, "Confirmed",
        signal.approved_quantity, signal.original_signal.target_price * 1005,
        signal.approved_quantity * signal.original_signal.target_price * 25, None)

execute_ai_paper_trade(signal, hft) ==
    IF hft.kind = "Executed"
    THEN ExecutionResult(signal.original_signal.signal_id,
            <<"ai", "paper", ToString(signal.original_signal.signal_id)>>, "Confirmed",
            signal.approved_quantity, signal.original_signal.target_price * 1000,
            signal.approved_quantity * signal.original_signal.target_price * 5, None)
    ELSE execute_paper_trade(signal)

execute_ai_live_trade(signal, hft) ==
    IF hft.kind = "Executed"
    THEN ExecutionResult(signal.original_signal.signal_id, <<hft.bundle_id>>, "Confirmed",
            signal.approved_quantity, signal.original_signal.target_price * 1002,
            signal.approved_quantity * signal.original_signal.target_price * 15, None)
    ELSE execute_live_trade(signal)

NoHFT == [kind |-> "NotCalled", phase |-> "none", bundle_id |-> None,
          ai_confidence |-> 0, defaulted |-> FALSE, metrics |-> HFTMetricsDefault]

NoInference == [kind |-> None, latency_ms |-> 0, has_confidence |-> FALSE,
                confidence |-> 0, complete |-> FALSE]

NoBundle == [kind |-> None, latency_ms |-> 0, result |-> None]

NoResult == ExecutionResult(0, <<>>, None, 0, 0, 0, None)

NoApproved == [original_signal |-> TradingSignal(0, 0, 0, 0, None),
               approved_quantity |-> 0, risk_score |-> 0]

NoExec == [signal |-> NoApproved, inf |-> NoInference, hft |-> NoHFT,
           live_trade |-> FALSE, result |-> NoResult]

\* The match of execute_signal on (trading_mode, hft_mode_enabled).
trade_result(mode, ai, signal, hft) ==
    CASE mode = "Paper" /\ ~ai -> execute_paper_trade(signal)
      [] mode = "Paper" /\ ai -> execute_ai_paper_trade(signal, hft)
      [] mode = "Live" /\ ~ai -> execute_live_trade(signal)
      [] mode = "Live" /\ ai -> execute_ai_live_trade(signal, hft)

\* The same match in execute_routed_signal; its AI paper arm names the
\* transaction after a fresh uuid.
trade_result_with_wallet(mode, ai, signal, hft) ==
    IF mode = "Paper" /\ ai /\ hft.kind = "Executed"
    THEN [execute_ai_paper_trade(signal, hft) EXCEPT
            !.transaction_id = <<"ai", "paper", "uuid">>]
    ELSE trade_result(mode, ai, signal, hft)

\* Whether the execution went through execute_live_trade (the non-AI live path).
ran_live_trade(mode, ai, hft) == mode = "Live" /\ (~ai \/ hft.kind # "Executed")


(***************************************************************************)
(* WalletManager (wallet_manager.rs)                                       *)
(***************************************************************************)
WalletIds == {"w1", "w2"}
WalletStatuses == {"Active", "Inactive", "Suspended", "Emergency", "Maintenance"}
WalletTypes == {"HFT", "Conservative"}

StrategyAllocation(st, pct, en) ==
    [strategy_type |-> st, allocation_percentage |-> pct, enabled |-> en]

WalletRiskLimitsDefault ==
    [max_daily_loss |-> 1000, max_position_size |-> 10000,
     max_exposure_percentage |-> 80]

WalletConfig(id, ty, status, allocation, key_ok, limits) ==
    [wallet_id |-> id, wallet_type |-> ty, status |-> status,
     strategy_allocation |-> allocation, key_ok |-> key_ok, risk_limits |-> limits]

WalletMetrics(id, balance, perf, util, pnl) ==
    [wallet_id |-> id, sol_balance |-> balance, performance_score |-> perf,
     risk_utilization |-> util, daily_pnl |-> pnl]

RECURSIVE SumEnabled(_)
SumEnabled(allocation) ==
    IF allocation = <<>> THEN 0
    ELSE (IF Head(allocation).enabled THEN Head(allocation).allocation_percentage ELSE 0)
         + SumEnabled(Tail(allocation))

\* parse_private_key succeeds exactly on a 64-byte key in one of the two
\* formats; key_ok says whether the descriptor's key is one.
parse_private_key(config) == config.key_ok

validate_without_allocation(config) ==
    /\ config.wallet_id # ""
    /\ parse_private_key(config)
    /\ config.risk_limits.max_exposure_percentage <= 100

validate_wallet_config(config) ==
    /\ config.wallet_id # ""
    /\ parse_private_key(config)
    /\ SumEnabled(config.strategy_allocation) <= 100
    /\ config.risk_limits.max_exposure_percentage <= 100

\* The ids pushed to the strategy mapping for one configuration.
RECURSIVE push_allocations(_, _, _)
push_allocations(mapping, allocation, id) ==
    IF allocation = <<>> THEN mapping
    ELSE LET a == Head(allocation)
             m1 == IF a.enabled
                   THEN [mapping EXCEPT ![a.strategy_type] = Append(@, id)]
                   ELSE mapping
         IN push_allocations(m1, Tail(allocation), id)

insert(map, key, value) ==
    [k \in DOMAIN map \cup {key} |-> IF k = key THEN value ELSE map[k]]

Registry(w, m, d, ok) == [wallets |-> w, mapping |-> m, default |-> d, ok |-> ok]

\* initialize: the loop over the configurations, left at the first invalid one.
RECURSIVE initialize(_, _)
initialize(reg, configs) ==
    IF configs = <<>> THEN reg
    ELSE LET config == Head(configs)
         IN IF ~validate_wallet_config(config) THEN [reg EXCEPT !.ok = FALSE]
            ELSE initialize(
                   Registry(insert(reg.wallets, config.wallet_id, config),
                            push_allocations(reg.mapping, config.strategy_allocation,
                                             config.wallet_id),
                            IF reg.default = None /\ config.status = "Active"
                            THEN config.wallet_id ELSE reg.default,
                            TRUE),
                   Tail(configs))

add_wallet(reg, config) ==
    IF ~validate_wallet_config(config) THEN [reg EXCEPT !.ok = FALSE]
    ELSE Registry(insert(reg.wallets, config.wallet_id, config),
                  push_allocations(reg.mapping, config.strategy_allocation,
                                   config.wallet_id),
                  reg.default, TRUE)

base_score(ty) ==
    CASE ty = "Primary" -> 10
      [] ty = "HFT" -> 9
      [] ty = "Secondary" -> 8
      [] ty = "Arbitrage" -> 7
      [] ty = "Conservative" -> 6
      [] ty = "MEVProtection" -> 5
      [] ty = "Experimental" -> 4
      [] ty = "Emergency" -> 1

RECURSIVE allocation_score_any(_, _)
allocation_score_any(allocation, st) ==
    IF allocation = <<>> THEN 0
    ELSE IF Head(allocation).strategy_type = st
         THEN Head(allocation).allocation_percentage * 2
         ELSE allocation_score_any(Tail(allocation), st)

\* The first enabled allocation for the strategy: its percentage / 10, times 20.
RECURSIVE allocation_score(_, _)
allocation_score(allocation, st) ==
    IF allocation = <<>> THEN 0
    ELSE IF Head(allocation).strategy_type = st /\ Head(allocation).enabled
         THEN Head(allocation).allocation_percentage * 2
         ELSE allocation_score(Tail(allocation), st)

\* calculate_wallet_score * 20; ms is the wallet's metrics, empty when it has none.
calculate_wallet_score(config, ms, criteria) ==
    base_score(config.wallet_type) * 20
    + allocation_score(config.strategy_allocation, criteria.strategy_type)
    + IF ms = <<>> THEN 0
      ELSE (IF ms[1].sol_balance >= criteria.required_balance THEN 100 ELSE 0)
           + Min(ms[1].performance_score, 5) * 20
           + (100 - ms[1].risk_utilization)

metrics_of(wm, id) == IF id \in DOMAIN wm THEN <<wm[id]>> ELSE <<>>

status_skipped_never(config) == FALSE

\* "Skip inactive wallets"
status_skipped(config) == config.status # "Active"

Selection(ok, id, score) == [ok |-> ok, wallet_id |-> id, score |-> score]

\* The loop of select_wallet over the candidates, in mapping order.
RECURSIVE select_loop(_, _, _, _, _)
select_loop(w, wm, criteria, candidates, best) ==
    IF candidates = <<>> THEN best
    ELSE LET id == Head(candidates)
             rest == Tail(candidates)
         IN IF id \in criteria.exclude_wallets
            THEN select_loop(w, wm, criteria, rest, best)
            ELSE IF id \notin DOMAIN w THEN Selection(FALSE, None, 0)
            ELSE IF status_skipped(w[id])
            THEN select_loop(w, wm, criteria, rest, best)
            ELSE IF criteria.preferred_wallet_type # None
                    /\ w[id].wallet_type # criteria.preferred_wallet_type
            THEN select_loop(w, wm, criteria, rest, best)
            ELSE LET score == calculate_wallet_score(w[id], metrics_of(wm, id), criteria)
                 IN select_loop(w, wm, criteria, rest,
                                IF score > best.score THEN Selection(TRUE, id, score)
                                ELSE best)

select_wallet(w, wm, mapping, criteria) ==
    IF mapping[criteria.strategy_type] = <<>> THEN Selection(FALSE, None, 0)
    ELSE select_loop(w, wm, criteria, mapping[criteria.strategy_type],
                     Selection(FALSE, None, 0))

\* get_wallet_keypair: get_wallet, then parse_private_key of the stored key.
get_wallet_keypair(w, id) == id \in DOMAIN w /\ parse_private_key(w[id])

emergency_stop_every(w) ==
    [id \in DOMAIN w |-> [w[id] EXCEPT !.status = "Emergency"]]

emergency_stop_all(w) ==
    [id \in DOMAIN w |-> IF w[id].status = "Active"
                         THEN [w[id] EXCEPT !.status = "Emergency"] ELSE w[id]]

reactivate_wallet(w, id) ==
    IF id \in DOMAIN w /\ w[id].status = "Emergency"
    THEN [w EXCEPT ![id].status = "Active"]
    ELSE w

(***************************************************************************)
(* The pipeline of main.rs: a producer on signal_tx, RiskManager::start,   *)
(* Executor::start, PersistenceManager::start                              *)
(***************************************************************************)
EmptyRegistry == [w \in {} |-> None]

NoRoute == [signal |-> <<>>, selected_wallet_id |-> None, reason |-> None]

NoRouting == [signal_id |-> 0, selected |-> FALSE, via_fallback |-> FALSE,
              fallback_status |-> None, fetched |-> FALSE, fetch_status |-> None,
              outcome |-> None]

NoCriteria == [strategy_type |-> None, required_balance |-> 0,
               preferred_wallet_type |-> None, exclude_wallets |-> {}]

NoSelection == [criteria |-> NoCriteria, ok |-> FALSE, wallet_id |-> None,
                status |-> None]

ExecutionStatsDefault ==
    [total_executions |-> 0, successful_executions |-> 0, failed_executions |-> 0,
     wallet_usage |-> EmptyRegistry]

InitPipeline ==
    /\ signal_queue = <<>>
    /\ execution_queue = <<>>
    /\ persistence_queue = <<>>
    /\ daily_pnl = 0
    /\ rejected = {}
    /\ metrics = HFTMetricsDefault
    /\ next_signal_id = 0
    /\ taken = {}
    /\ sent = <<>>
    /\ last_exec = NoExec

InitWalletManager ==
    /\ wallets = EmptyRegistry
    /\ wallet_metrics = EmptyRegistry
    /\ strategy_wallet_mapping = [st \in StrategyTypes |-> <<>>]
    /\ default_wallet_id = None
    /\ last_selection = NoSelection
    /\ admin_calls = 0

InitMultiWallet ==
    /\ mw_pc = "idle"
    /\ mw_routed = NoRoute
    /\ mw_last = NoRouting
    /\ execution_stats = ExecutionStatsDefault

InitIngest ==
    /\ market_data_queue = <<>>
    /\ ticks_sent = 0
    /\ signal_times = <<>>
    /\ slippage_call = <<>>

\* The tasks in the order in which main spawns and joins them.
Stages == <<"data_ingestor", "strategy_engine", "risk_manager", "executor", "persistence">>

StageNames == {Stages[i] : i \in DOMAIN Stages}

\* All five tasks are spawned and wait at the first await of their loop; main
\* waits at try_join!.
InitSupervisor ==
    /\ task = [s \in StageNames |-> "waiting"]
    /\ main_pc = "joining"
    /\ in_flight = <<>>

NoCommand ==
    [decodable |-> FALSE, decision_id |-> 0, action |-> None, confidence |-> 0,
     quantity |-> 0, has_target_price |-> FALSE, target_price |-> 0]

NoListen == [outcome |-> None, age |-> 0, command |-> NoCommand]

\* AIConnector::new has connected and start has spawned the two tasks.
InitBridge ==
    /\ trading_commands = <<>>
    /\ commands_pushed = 0
    /\ decision_queue = <<>>
    /\ decision_rx_open = TRUE
    /\ is_connected = TRUE
    /\ listener_pc = "listening"
    /\ monitor_pc = "monitoring"
    /\ last_listen = NoListen
    /\ bridge_failed = FALSE

Callers == {"t1", "t2", "t3"}

Locks == {"wallets", "wallet_metrics", "strategy_wallet_mapping", "active_positions"}

InitLocks ==
    /\ call = [c \in Callers |-> "idle"]
    /\ held = [c \in Callers |-> 0]
    /\ lock_holders = [l \in Locks |-> {}]
    /\ lock_queue = [l \in Locks |-> <<>>]
    /\ calls_started = 0

InitExt == InitIngest /\ InitSupervisor /\ InitBridge /\ InitLocks

Init ==
    /\ trading_mode \in {"Paper", "Live"}
    /\ hft_mode_enabled \in BOOLEAN
    /\ fallback_wallet_id = None
    /\ InitPipeline
    /\ InitWalletManager
    /\ InitMultiWallet
    /\ InitExt

\* The holder of signal_tx sends one TradingSignal with a fresh id; the
\* StrategyEngine's signals are TokenSniping signals.
SendSignal(max, quantities, confidences) ==
    /\ next_signal_id < max
    /\ \E q \in quantities, p \in Prices, c \in confidences :
         LET signal == TradingSignal(next_signal_id + 1, q, p, c, "TokenSniping")
         IN signal_queue' = Append(signal_queue, signal)
    /\ next_signal_id' = next_signal_id + 1
    /\ UNCHANGED <<trading_mode, hft_mode_enabled, execution_queue, persistence_queue,
                   daily_pnl, rejected, metrics, taken, sent, last_exec>>
    /\ UNCHANGED wallet_vars
    /\ UNCHANGED mw_vars
    /\ UNCHANGED ext_vars

\* RiskManager::start: receive one signal and evaluate it.
RiskEvaluate ==
    /\ signal_queue # <<>>
    /\ execution_queue' = execution_queue \o evaluate_signal(Head(signal_queue))
    /\ rejected' = IF evaluate_signal(Head(signal_queue)) = <<>>
                   THEN rejected \cup {Head(signal_queue).signal_id} ELSE rejected
    /\ signal_queue' = Tail(signal_queue)
    /\ UNCHANGED <<trading_mode, hft_mode_enabled, persistence_queue, daily_pnl,
                   metrics, next_signal_id, taken, sent, last_exec>>
    /\ UNCHANGED wallet_vars
    /\ UNCHANGED mw_vars
    /\ UNCHANGED ext_vars

signal_ids(results) == [i \in 1..Len(results) |-> results[i].signal_id]

send_twice(queue, result) == Append(Append(queue, result), result)

send_front(queue, result) == <<result>> \o queue

\* persistence_sender.send(result)
send_result(queue, result) == Append(queue, result)

\* Executor::start: receive one approved signal and execute_signal it.  The
\* inference and bundle answers are read only when the HFT engine is called.
ExecuteSignal ==
    /\ execution_queue # <<>>
    /\ \E inf \in IF hft_mode_enabled THEN InferenceResponses ELSE {NoInference} :
       \E bun \in IF hft_mode_enabled /\ reaches_bundle(inf)
                  THEN BundleResponses ELSE {NoBundle} :
         LET signal == Head(execution_queue)
             hft == IF hft_mode_enabled THEN execute_ai_signal(metrics, inf, bun)
                    ELSE NoHFT
             result == trade_result(trading_mode, hft_mode_enabled, signal, hft)
         IN /\ metrics' = IF hft_mode_enabled THEN hft.metrics ELSE metrics
            /\ persistence_queue' = send_result(persistence_queue, result)
            /\ sent' = sent \o signal_ids(send_result(<<>>, result))
            /\ taken' = taken \cup {signal.original_signal.signal_id}
            /\ last_exec' = [signal |-> signal,
                             inf |-> IF hft_mode_enabled THEN inf ELSE NoInference,
                             hft |-> [hft EXCEPT !.metrics = HFTMetricsDefault],
                             live_trade |-> ran_live_trade(trading_mode, hft_mode_enabled, hft),
                             result |-> result]
    /\ execution_queue' = Tail(execution_queue)
    /\ UNCHANGED <<trading_mode, hft_mode_enabled, signal_queue, daily_pnl, rejected,
                   next_signal_id>>
    /\ UNCHANGED wallet_vars
    /\ UNCHANGED mw_vars
    /\ UNCHANGED ext_vars

\* PersistenceManager::start: receive one result and store_execution_result it.
PersistenceStore ==
    /\ persistence_queue # <<>>
    /\ persistence_queue' = Tail(persistence_queue)
    /\ UNCHANGED <<trading_mode, hft_mode_enabled, signal_queue, execution_queue,
                   daily_pnl, rejected, metrics, next_signal_id, taken, sent, last_exec>>
    /\ UNCHANGED wallet_vars
    /\ UNCHANGED mw_vars
    /\ UNCHANGED ext_vars

Next == SendSignal(MaxSignals, Quantities, Confidences)
        \/ RiskEvaluate \/ ExecuteSignal \/ PersistenceStore

Spec == Init /\ [][Next]_vars

(***************************************************************************)
(* DataIngestor and StrategyEngine                                         *)
(***************************************************************************)
\* price_base starts at 100.0 and moves by -0.5 .. +0.4 a tick; the model
\* draws the price of a tick from a value below and a value above the 105.0
\* at which process_market_data emits a signal.  target_price is rounded down
\* to a whole unit.
TickPrices == {100, 106}

MarketData(price, volume) ==
    [symbol |-> "SOL/USDC", price |-> price, volume |-> volume, source |-> "Helius"]

\* calculate_slippage without its price_factor.
calculate_slippage_flat(order_size, liquidity, price) ==
    IF liquidity <= 0 THEN 100
    ELSE Min(Min((order_size * 100) \div liquidity, 50), 100)

\* Times 10; price is in thousandths of a unit (0.01 is 10, 1.0 is 1000).
price_factor(price) ==
    IF price < 10 THEN 15
    ELSE IF price < 1000 THEN 12
    ELSE 10

\* In percent, rounded down; price is in thousandths of a unit.
calculate_slippage(order_size, liquidity, price) ==
    IF liquidity <= 0 THEN 100
    ELSE LET impact_ratio == (order_size * 100) \div liquidity
             base_slippage == Min(impact_ratio, 50)
         IN Min((base_slippage * price_factor(price)) \div 10, 100)

SlippageCall(order_size, liquidity, price) ==
    [order_size |-> order_size, liquidity |-> liquidity, price |-> price,
     result |-> calculate_slippage(order_size, liquidity, price)]

\* Arguments of calculate_slippage: order sizes below, at and above half of
\* the liquidity, no and negative liquidity, prices on both sides of 0.01 and 1.0.
SlippageOrderSizes == {-100, 0, 100, 400, 500, 5000}
SlippageLiquidities == {-1, 0, 100, 1000, 10000}
SlippagePrices == {1, 10, 500, 1000, 10000}

\* market_data_sender.send(market_data) on the unbounded channel
send_market_data(queue, market_data) == Append(queue, market_data)

\* One turn of the loop of simulate_market_data.
IngestTick ==
    /\ ticks_sent < MaxTicks
    /\ \E price \in TickPrices :
         market_data_queue' = send_market_data(market_data_queue, MarketData(price, 1000))
    /\ ticks_sent' = ticks_sent + 1
    /\ UNCHANGED <<trading_mode, hft_mode_enabled, signal_times, slippage_call>>
    /\ UNCHANGED pipeline_vars
    /\ UNCHANGED wallet_vars
    /\ UNCHANGED mw_vars
    /\ UNCHANGED sup_vars
    /\ UNCHANGED bridge_vars
    /\ UNCHANGED lock_vars

\* StrategyEngine::start: receive one MarketData and process_market_data it.
StrategyProcess ==
    /\ market_data_queue # <<>>
    /\ LET data == Head(market_data_queue)
           quantity == 100
           estimated_liquidity == data.volume \div 10
           slippage == calculate_slippage(quantity, estimated_liquidity, data.price * 1000)
           signal == TradingSignal(next_signal_id + 1, quantity,
                                   (data.price * (101 + slippage)) \div 100,
                                   (70 * (100 - slippage)) \div 100, "TokenSniping")
       IN IF data.price > 105
          THEN /\ signal_queue' = Append(signal_queue, signal)
               /\ next_signal_id' = next_signal_id + 1
               /\ signal_times' = Append(signal_times, ticks_sent)
               /\ slippage_call' =
                      <<SlippageCall(quantity, estimated_liquidity, data.price * 1000)>>
          ELSE UNCHANGED <<signal_queue, next_signal_id, signal_times, slippage_call>>
    /\ market_data_queue' = Tail(market_data_queue)
    /\ UNCHANGED <<trading_mode, hft_mode_enabled, execution_queue, persistence_queue,
                   daily_pnl, rejected, metrics, taken, sent, last_exec, ticks_sent>>
    /\ UNCHANGED wallet_vars
    /\ UNCHANGED mw_vars
    /\ UNCHANGED sup_vars
    /\ UNCHANGED bridge_vars
    /\ UNCHANGED lock_vars

NextIngest == IngestTick \/ StrategyProcess \/ RiskEvaluate

SpecIngest == Init /\ [][NextIngest]_vars

\* A call of the public StrategyEngine::calculate_slippage from outside
\* process_market_data.
CalculateSlippage ==
    /\ \E order_size \in SlippageOrderSizes, liquidity \in SlippageLiquidities,
          price \in SlippagePrices :
         slippage_call' = <<SlippageCall(order_size, liquidity, price)>>
    /\ UNCHANGED <<trading_mode, hft_mode_enabled, market_data_queue, ticks_sent,
                   signal_times>>
    /\ UNCHANGED pipeline_vars
    /\ UNCHANGED wallet_vars
    /\ UNCHANGED mw_vars
    /\ UNCHANGED sup_vars
    /\ UNCHANGED bridge_vars
    /\ UNCHANGED lock_vars

NextSlippage == CalculateSlippage

SpecSlippage == Init /\ [][NextSlippage]_vars

\* A trading day of the same pipeline: a longer run of signals that pass the
\* confidence gate, some of them at more than the position limit.
DayQuantities == {100, 1500}

NextDay == SendSignal(MaxDaySignals, DayQuantities, {min_confidence_threshold})
           \/ RiskEvaluate \/ ExecuteSignal \/ PersistenceStore

SpecDay == Init /\ [][NextDay]_vars

(***************************************************************************)
(* main: the five spawned tasks and the try_join! that waits for them      *)
(***************************************************************************)
\* A task that is still running: it waits at the await of its loop, or (the
\* executor, whose trades sleep) it is suspended in the middle of a message.
\* A stage whose input channel is closed and empty is "spinning": recv()
\* answers None at once and the loop takes its next turn.
Alive(s) == task[s] \in {"waiting", "handling", "spinning"}

\* The receiver a task owns is dropped with the task.
receiver_dropped(t, s) == t[s] \notin {"waiting", "handling", "spinning"}

join_all(t) ==
    IF \A s \in StageNames : t[s] \in {"returned", "panicked"} THEN "done" ELSE "joining"

\* tokio::try_join! over the five JoinHandles, followed by `?`: an Err as
\* soon as one task has panicked, Ok when all five have returned.  A task
\* whose start() returned Err has logged it and returned ().
try_join(t) ==
    IF \E s \in StageNames : t[s] = "panicked" THEN "failed"
    ELSE IF \A s \in StageNames : t[s] = "returned" THEN "done"
    ELSE "joining"

\* The StrategyEngine task sends a signal the RiskManager will approve.
SupSendSignal ==
    /\ task["strategy_engine"] = "waiting"
    /\ SendSignal(MaxSupSignals, {100}, {min_confidence_threshold})

\* RiskManager::start while the executor holds execution_rx.
SupRiskEvaluate ==
    /\ task["risk_manager"] = "waiting"
    /\ ~receiver_dropped(task, "executor")
    /\ RiskEvaluate

\* RiskManager::start after execution_rx was dropped: send_approved_signal
\* fails, evaluate_signal returns Err, start returns it through `?`, and the
\* task logs "RiskManager failed" and returns.
RiskSendFails ==
    /\ task["risk_manager"] = "waiting"
    /\ receiver_dropped(task, "executor")
    /\ signal_queue # <<>>
    /\ rejected' = IF evaluate_signal(Head(signal_queue)) = <<>>
                   THEN rejected \cup {Head(signal_queue).signal_id} ELSE rejected
    /\ task' = IF evaluate_signal(Head(signal_queue)) = <<>>
               THEN task ELSE [task EXCEPT !["risk_manager"] = "returned"]
    /\ signal_queue' = Tail(signal_queue)
    /\ UNCHANGED <<trading_mode, hft_mode_enabled, execution_queue, persistence_queue,
                   daily_pnl, metrics, next_signal_id, taken, sent, last_exec>>
    /\ UNCHANGED wallet_vars
    /\ UNCHANGED mw_vars
    /\ UNCHANGED ingest_vars
    /\ UNCHANGED <<main_pc, in_flight>>
    /\ UNCHANGED bridge_vars
    /\ UNCHANGED lock_vars

\* Executor::start: recv() hands over one approved signal; execute_signal
\* then suspends at the await of the trade (a sleep, or the HFT engine's
\* requests).
ExecutorRecv ==
    /\ task["executor"] = "waiting"
    /\ execution_queue # <<>>
    /\ in_flight' = <<Head(execution_queue)>>
    /\ execution_queue' = Tail(execution_queue)
    /\ taken' = taken \cup {Head(execution_queue).original_signal.signal_id}
    /\ task' = [task EXCEPT !["executor"] = "handling"]
    /\ UNCHANGED <<trading_mode, hft_mode_enabled, signal_queue, persistence_queue,
                   daily_pnl, rejected, metrics, next_signal_id, sent, last_exec>>
    /\ UNCHANGED wallet_vars
    /\ UNCHANGED mw_vars
    /\ UNCHANGED ingest_vars
    /\ UNCHANGED main_pc
    /\ UNCHANGED bridge_vars
    /\ UNCHANGED lock_vars

\* The trade completes: the rest of execute_signal, back to recv().
ExecutorFinish ==
    /\ task["executor"] = "handling"
    /\ \E inf \in IF hft_mode_enabled THEN InferenceResponses ELSE {NoInference} :
       \E bun \in IF hft_mode_enabled /\ reaches_bundle(inf)
                  THEN BundleResponses ELSE {NoBundle} :
         LET signal == in_flight[1]
             hft == IF hft_mode_enabled THEN execute_ai_signal(metrics, inf, bun)
                    ELSE NoHFT
             result == trade_result(trading_mode, hft_mode_enabled, signal, hft)
         IN /\ metrics' = IF hft_mode_enabled THEN hft.metrics ELSE metrics
            /\ persistence_queue' =
                   IF receiver_dropped(task, "persistence") THEN persistence_queue
                   ELSE send_result(persistence_queue, result)
            /\ sent' = sent \o signal_ids(send_result(<<>>, result))
            /\ last_exec' = [signal |-> signal,
                             inf |-> IF hft_mode_enabled THEN inf ELSE NoInference,
                             hft |-> [hft EXCEPT !.metrics = HFTMetricsDefault],
                             live_trade |-> ran_live_trade(trading_mode, hft_mode_enabled, hft),
                             result |-> result]
    /\ in_flight' = <<>>
    /\ task' = [task EXCEPT !["executor"] = "waiting"]
    /\ UNCHANGED <<trading_mode, hft_mode_enabled, signal_queue, execution_queue,
                   daily_pnl, rejected, next_signal_id, taken>>
    /\ UNCHANGED wallet_vars
    /\ UNCHANGED mw_vars
    /\ UNCHANGED ingest_vars
    /\ UNCHANGED main_pc
    /\ UNCHANGED bridge_vars
    /\ UNCHANGED lock_vars

SupPersistenceStore ==
    /\ task["persistence"] = "waiting"
    /\ PersistenceStore

\* simulate_market_data after market_data_rx was dropped: send fails, the
\* loop breaks and start returns Ok.
IngestSendFails ==
    /\ task["data_ingestor"] = "waiting"
    /\ receiver_dropped(task, "strategy_engine")
    /\ task' = [task EXCEPT !["data_ingestor"] = "returned"]
    /\ UNCHANGED <<trading_mode, hft_mode_enabled>>
    /\ UNCHANGED pipeline_vars
    /\ UNCHANGED wallet_vars
    /\ UNCHANGED mw_vars
    /\ UNCHANGED ingest_vars
    /\ UNCHANGED <<main_pc, in_flight>>
    /\ UNCHANGED bridge_vars
    /\ UNCHANGED lock_vars

\* The stage that holds the sender of a stage's input channel, and the
\* messages queued on that channel.
Upstream(s) ==
    CASE s = "strategy_engine" -> "data_ingestor"
      [] s = "risk_manager" -> "strategy_engine"
      [] s = "executor" -> "risk_manager"

InputQueue(s) ==
    CASE s = "strategy_engine" -> market_data_queue
      [] s = "risk_manager" -> signal_queue
      [] s = "executor" -> execution_queue

\* `while self.is_running { if let Some(m) = receiver.recv().await { .. } }`
\* when recv() answers None: nothing assigns is_running, so the loop goes on.
recv_none(s) == "spinning"

\* start() of a stage whose upstream task is gone and whose channel is empty.
RecvNone(s) ==
    /\ task[s] = "waiting"
    /\ receiver_dropped(task, Upstream(s))
    /\ InputQueue(s) = <<>>
    /\ task' = [task EXCEPT ![s] = recv_none(s)]
    /\ UNCHANGED <<trading_mode, hft_mode_enabled>>
    /\ UNCHANGED pipeline_vars
    /\ UNCHANGED wallet_vars
    /\ UNCHANGED mw_vars
    /\ UNCHANGED ingest_vars
    /\ UNCHANGED <<main_pc, in_flight>>
    /\ UNCHANGED bridge_vars
    /\ UNCHANGED lock_vars

\* A running task panics: it unwinds and drops what it owns, the message it
\* was handling included.
Panic(s) ==
    /\ Alive(s)
    /\ task' = [task EXCEPT ![s] = "panicked"]
    /\ in_flight' = IF s = "executor" THEN <<>> ELSE in_flight
    /\ UNCHANGED <<trading_mode, hft_mode_enabled>>
    /\ UNCHANGED pipeline_vars
    /\ UNCHANGED wallet_vars
    /\ UNCHANGED mw_vars
    /\ UNCHANGED ingest_vars
    /\ UNCHANGED main_pc
    /\ UNCHANGED bridge_vars
    /\ UNCHANGED lock_vars

\* main is woken by a finished task and try_join! completes; main returns.
MainJoin ==
    /\ main_pc = "joining"
    /\ try_join(task) # "joining"
    /\ main_pc' = try_join(task)
    /\ UNCHANGED <<trading_mode, hft_mode_enabled>>
    /\ UNCHANGED pipeline_vars
    /\ UNCHANGED wallet_vars
    /\ UNCHANGED mw_vars
    /\ UNCHANGED ingest_vars
    /\ UNCHANGED <<task, in_flight>>
    /\ UNCHANGED bridge_vars
    /\ UNCHANGED lock_vars

\* main has returned and the runtime is dropped: every task still running is
\* dropped at the await where it is suspended, in no order the program
\* controls.
Cancel(s) ==
    /\ main_pc # "joining"
    /\ Alive(s)
    /\ task' = [task EXCEPT ![s] = "cancelled"]
    /\ in_flight' = IF s = "executor" THEN <<>> ELSE in_flight
    /\ UNCHANGED <<trading_mode, hft_mode_enabled>>
    /\ UNCHANGED pipeline_vars
    /\ UNCHANGED wallet_vars
    /\ UNCHANGED mw_vars
    /\ UNCHANGED ingest_vars
    /\ UNCHANGED main_pc
    /\ UNCHANGED bridge_vars
    /\ UNCHANGED lock_vars

\* The pipeline in standard mode: main builds the executor with Executor::new.
\* With the HFT engine the tasks and the join are the same.
InitSup == Init /\ ~hft_mode_enabled

NextSup == SupSendSignal \/ SupRiskEvaluate \/ RiskSendFails \/ ExecutorRecv
           \/ ExecutorFinish \/ SupPersistenceStore \/ IngestSendFails
           \/ (\E s \in {"strategy_engine", "risk_manager", "executor"} : RecvNone(s))
           \/ (\E s \in StageNames : Panic(s))
           \/ MainJoin
           \/ (\E s \in StageNames : Cancel(s))

SpecSup == InitSup /\ [][NextSup]_vars

\* The runtime polls main once a JoinHandle is ready, and its shutdown
\* reaches every task.
SpecSupFair ==
    /\ SpecSup
    /\ WF_vars(MainJoin)
    /\ \A s \in StageNames : WF_vars(Cancel(s))

(***************************************************************************)
(* AIConnector: the bridge to the external decision process                *)
(***************************************************************************)
AIActions == {"Buy", "Hold", "StopLoss"}

DecisionConfidences == {69, 70}

\* Seconds between the timestamp of a decision and the moment it is read.
DecisionAges == {30, 31}

\* A command as pushed on the list: a JSON text that decodes into an
\* AIDecision, or one that does not.
AIDecision(id, action, confidence, has_price) ==
    [decodable |-> TRUE, decision_id |-> id, action |-> action,
     confidence |-> confidence, quantity |-> 100,
     has_target_price |-> has_price, target_price |-> IF has_price THEN 100 ELSE 0]

Commands(id) ==
    {AIDecision(id, a, c, TRUE) : a \in AIActions, c \in DecisionConfidences}
    \cup {AIDecision(id, "Buy", confidence_threshold, FALSE)}
    \cup {[NoCommand EXCEPT !.decision_id = id]}

decision_never_stale(age) == FALSE

\* decision_age > max_decision_age
decision_stale(age) == age > max_decision_age

\* What listen_for_ai_decisions_static returns, and what it leaves on the list.
\* kind "Err": blpop or the decoding failed; "None": nothing popped within
\* brain_request_timeout, or a stale decision; "Some": a decision.
listen_for_ai_decisions(commands, conn_error, age) ==
    IF conn_error
    THEN [kind |-> "Err", outcome |-> "conn_error", command |-> NoCommand, rest |-> commands]
    ELSE IF commands = <<>>
    THEN [kind |-> "None", outcome |-> "timeout", command |-> NoCommand, rest |-> commands]
    ELSE IF ~Head(commands).decodable
    THEN [kind |-> "Err", outcome |-> "decode_error", command |-> Head(commands),
          rest |-> Tail(commands)]
    ELSE IF decision_stale(age)
    THEN [kind |-> "None", outcome |-> "stale", command |-> Head(commands),
          rest |-> Tail(commands)]
    ELSE [kind |-> "Some", outcome |-> "decision", command |-> Head(commands),
          rest |-> Tail(commands)]

\* <<>> for the Err of a Hold decision, else the one signal.
convert_ai_decision_to_signal(decision) ==
    IF decision.action = "Hold" THEN <<>>
    ELSE <<[TradingSignal(decision.decision_id, decision.quantity,
                          IF decision.has_target_price THEN decision.target_price ELSE 0,
                          decision.confidence, "AIDecision")
            EXCEPT !.action = IF decision.action = "Buy" THEN "Buy" ELSE "Sell"]>>

\* What process_ai_decision_static does with a decision: the outcome and the
\* signals it has put on the channel.
process_ai_decision(decision, rx_open) ==
    IF decision.confidence < confidence_threshold
    THEN [outcome |-> "low_confidence", sent |-> <<>>]
    ELSE IF convert_ai_decision_to_signal(decision) = <<>>
    THEN [outcome |-> "hold", sent |-> <<>>]
    ELSE IF ~rx_open
    THEN [outcome |-> "send_failed", sent |-> <<>>]
    ELSE [outcome |-> "forwarded", sent |-> convert_ai_decision_to_signal(decision)]

ListenerFailures == {"conn_error", "decode_error", "hold", "send_failed"}

listener_stops_on_failure(outcome) ==
    IF outcome \in ListenerFailures THEN "exited" ELSE "listening"

\* Every arm of the match in the loop of run_brain_listener falls through to
\* the next turn.
listener_next(outcome) == "listening"

\* Both arms of the match in the loop of run_health_monitor fall through.
monitor_next(outcome) == "monitoring"

\* The external decision process pushes a command.
BrainPush ==
    /\ commands_pushed < MaxCommands
    /\ \E command \in Commands(commands_pushed + 1) :
         trading_commands' = Append(trading_commands, command)
    /\ commands_pushed' = commands_pushed + 1
    /\ UNCHANGED <<decision_queue, decision_rx_open, is_connected, listener_pc,
                   monitor_pc, last_listen, bridge_failed>>
    /\ UNCHANGED <<trading_mode, hft_mode_enabled>>
    /\ UNCHANGED pipeline_vars
    /\ UNCHANGED wallet_vars
    /\ UNCHANGED mw_vars
    /\ UNCHANGED ingest_vars
    /\ UNCHANGED sup_vars
    /\ UNCHANGED lock_vars

\* One turn of the loop of run_brain_listener.
BrainListen ==
    /\ listener_pc = "listening"
    /\ \E conn_error \in BOOLEAN, age \in DecisionAges :
         LET heard == listen_for_ai_decisions(trading_commands, conn_error, age)
             done == IF heard.kind = "Some"
                     THEN process_ai_decision(heard.command, decision_rx_open)
                     ELSE [outcome |-> heard.outcome, sent |-> <<>>]
         IN /\ trading_commands' = heard.rest
            /\ decision_queue' = decision_queue \o done.sent
            /\ last_listen' = [outcome |-> done.outcome, age |-> age,
                               command |-> heard.command]
            /\ bridge_failed' = (bridge_failed \/ done.outcome \in ListenerFailures)
            /\ listener_pc' = listener_next(done.outcome)
    /\ UNCHANGED <<commands_pushed, decision_rx_open, is_connected, monitor_pc>>
    /\ UNCHANGED <<trading_mode, hft_mode_enabled>>
    /\ UNCHANGED pipeline_vars
    /\ UNCHANGED wallet_vars
    /\ UNCHANGED mw_vars
    /\ UNCHANGED ingest_vars
    /\ UNCHANGED sup_vars
    /\ UNCHANGED lock_vars

\* One turn of the loop of run_health_monitor: the handshake is answered,
\* times out after 5 seconds, or the queue store fails.
HealthCheck ==
    /\ monitor_pc = "monitoring"
    /\ \E outcome \in {"healthy", "timeout", "error"} :
         /\ is_connected' = (outcome = "healthy")
         /\ bridge_failed' = (bridge_failed \/ outcome # "healthy")
         /\ monitor_pc' = monitor_next(outcome)
    /\ UNCHANGED <<trading_commands, commands_pushed, decision_queue, decision_rx_open,
                   listener_pc, last_listen>>
    /\ UNCHANGED <<trading_mode, hft_mode_enabled>>
    /\ UNCHANGED pipeline_vars
    /\ UNCHANGED wallet_vars
    /\ UNCHANGED mw_vars
    /\ UNCHANGED ingest_vars
    /\ UNCHANGED sup_vars
    /\ UNCHANGED lock_vars

\* The consumer of the bridge's signals drops its receiver.
DropDecisionReceiver ==
    /\ decision_rx_open
    /\ decision_rx_open' = FALSE
    /\ UNCHANGED <<trading_commands, commands_pushed, decision_queue, is_connected,
                   listener_pc, monitor_pc, last_listen, bridge_failed>>
    /\ UNCHANGED <<trading_mode, hft_mode_enabled>>
    /\ UNCHANGED pipeline_vars
    /\ UNCHANGED wallet_vars
    /\ UNCHANGED mw_vars
    /\ UNCHANGED ingest_vars
    /\ UNCHANGED sup_vars
    /\ UNCHANGED lock_vars

NextBridge == BrainPush \/ BrainListen \/ HealthCheck \/ DropDecisionReceiver

\* The bridge reads neither the trading mode nor the HFT switch.
InitBridgeTasks == Init /\ trading_mode = "Paper" /\ ~hft_mode_enabled

SpecBridge == InitBridgeTasks /\ [][NextBridge]_vars

(***************************************************************************)
(* Calls on the WalletManager's public interface                           *)
(***************************************************************************)
WalletProfiles ==
    {[wallet_type |-> "HFT",
      strategy_allocation |-> <<StrategyAllocation("TokenSniping", 60, TRUE)>>],
     [wallet_type |-> "Conservative",
      strategy_allocation |-> <<StrategyAllocation("Arbitrage", 40, FALSE),
                                StrategyAllocation("TokenSniping", 30, TRUE)>>]}

ValidWalletConfigs(statuses) ==
    {WalletConfig(id, pr.wallet_type, st, pr.strategy_allocation, TRUE,
                  WalletRiskLimitsDefault) :
        id \in WalletIds, pr \in WalletProfiles, st \in statuses}

InvalidWalletConfigs ==
    {WalletConfig("", "HFT", "Active", <<>>, TRUE, WalletRiskLimitsDefault),
     WalletConfig("w1", "HFT", "Active", <<>>, FALSE, WalletRiskLimitsDefault),
     WalletConfig("w1", "HFT", "Active",
                  <<StrategyAllocation("TokenSniping", 60, TRUE),
                    StrategyAllocation("Arbitrage", 50, TRUE)>>,
                  TRUE, WalletRiskLimitsDefault),
     WalletConfig("w1", "HFT", "Active", <<>>, TRUE,
                  [WalletRiskLimitsDefault EXCEPT !.max_exposure_percentage = 120])}

\* The descriptors handed to the manager on its own, in every status ...
WalletConfigs == ValidWalletConfigs(WalletStatuses) \cup InvalidWalletConfigs

\* ... and those handed to it while the executor routes signals.
RoutedWalletConfigs ==
    ValidWalletConfigs({"Active", "Suspended"}) \cup InvalidWalletConfigs

WalletMetricsInputs ==
    {WalletMetrics("w1", 0, -20, 0, 0), WalletMetrics("w2", 1000000, 8, 0, -1000)}

SelectionCriteria ==
    [strategy_type : StrategyTypes, required_balance : {110000},
     preferred_wallet_type : {None}, exclude_wallets : {{}, {"w1"}}]
    \cup [strategy_type : {"TokenSniping"}, required_balance : {110000},
          preferred_wallet_type : {"HFT"}, exclude_wallets : {{}}]

CurrentRegistry == Registry(wallets, strategy_wallet_mapping, default_wallet_id, TRUE)

SetRegistry(reg) ==
    /\ wallets' = reg.wallets
    /\ strategy_wallet_mapping' = reg.mapping
    /\ default_wallet_id' = reg.default

AdminCall ==
    /\ admin_calls < MaxAdminCalls
    /\ admin_calls' = admin_calls + 1
    /\ last_selection' = NoSelection

\* initialize is the start-up call: it is made once, on the manager as constructed.
Initialize(configs) ==
    /\ admin_calls = 0
    /\ AdminCall
    /\ \E c1 \in configs, c2 \in configs :
         SetRegistry(initialize(CurrentRegistry, <<c1, c2>>))
    /\ UNCHANGED <<trading_mode, hft_mode_enabled, wallet_metrics>>
    /\ UNCHANGED pipeline_vars
    /\ UNCHANGED mw_vars
    /\ UNCHANGED ext_vars

AddWallet(configs) ==
    /\ AdminCall
    /\ \E config \in configs : SetRegistry(add_wallet(CurrentRegistry, config))
    /\ UNCHANGED <<trading_mode, hft_mode_enabled, wallet_metrics>>
    /\ UNCHANGED pipeline_vars
    /\ UNCHANGED mw_vars
    /\ UNCHANGED ext_vars

UpdateWalletMetrics ==
    /\ AdminCall
    /\ \E m \in WalletMetricsInputs : wallet_metrics' = insert(wallet_metrics, m.wallet_id, m)
    /\ UNCHANGED <<trading_mode, hft_mode_enabled, wallets, strategy_wallet_mapping,
                   default_wallet_id>>
    /\ UNCHANGED pipeline_vars
    /\ UNCHANGED mw_vars
    /\ UNCHANGED ext_vars

EmergencyStopAll ==
    /\ AdminCall
    /\ wallets' = emergency_stop_all(wallets)
    /\ UNCHANGED <<trading_mode, hft_mode_enabled, wallet_metrics,
                   strategy_wallet_mapping, default_wallet_id>>
    /\ UNCHANGED pipeline_vars
    /\ UNCHANGED mw_vars
    /\ UNCHANGED ext_vars

ReactivateWallet ==
    /\ AdminCall
    /\ \E id \in WalletIds : wallets' = reactivate_wallet(wallets, id)
    /\ UNCHANGED <<trading_mode, hft_mode_enabled, wallet_metrics,
                   strategy_wallet_mapping, default_wallet_id>>
    /\ UNCHANGED pipeline_vars
    /\ UNCHANGED mw_vars
    /\ UNCHANGED ext_vars

\* A call of select_wallet; last_selection keeps what it returned and the status
\* the registry holds for the returned wallet at that moment.
SelectWallet ==
    /\ \E criteria \in SelectionCriteria :
         LET sel == select_wallet(wallets, wallet_metrics, strategy_wallet_mapping, criteria)
         IN last_selection' =
              [criteria |-> criteria, ok |-> sel.ok, wallet_id |-> sel.wallet_id,
               status |-> IF sel.wallet_id \in DOMAIN wallets
                          THEN wallets[sel.wallet_id].status ELSE None]
    /\ UNCHANGED <<trading_mode, hft_mode_enabled, wallets, wallet_metrics,
                   strategy_wallet_mapping, default_wallet_id, admin_calls>>
    /\ UNCHANGED pipeline_vars
    /\ UNCHANGED mw_vars
    /\ UNCHANGED ext_vars

NextWM == Initialize(WalletConfigs) \/ AddWallet(WalletConfigs) \/ UpdateWalletMetrics
          \/ EmergencyStopAll \/ ReactivateWallet \/ SelectWallet

SpecWM == Init /\ [][NextWM]_vars

\* The registry on its own, fed with the HFT allocation of
\* create_strategy_allocations at max_allocation 1.0 (Arbitrage 60%,
\* TokenSniping 40%: the enabled total is exactly 100) and with the same
\* descriptor after Arbitrage was switched off.
RegistryAllocations ==
    {<<StrategyAllocation("Arbitrage", 60, TRUE),
       StrategyAllocation("TokenSniping", 40, TRUE)>>,
     <<StrategyAllocation("Arbitrage", 60, FALSE),
       StrategyAllocation("TokenSniping", 40, TRUE)>>}

RegistryConfigs ==
    {WalletConfig(id, "HFT", "Active", allocation, TRUE, WalletRiskLimitsDefault) :
        id \in WalletIds, allocation \in RegistryAllocations}
    \cup InvalidWalletConfigs

NextReg == Initialize(RegistryConfigs) \/ AddWallet(RegistryConfigs) \/ SelectWallet

SpecReg == Init /\ [][NextReg]_vars

(***************************************************************************)
(* The RwLocks of the WalletManager under concurrent callers                *)
(***************************************************************************)
Operations ==
    {"select_wallet", "add_wallet", "update_wallet_metrics", "get_wallet_keypair",
     "get_portfolio_summary", "emergency_stop_all", "reactivate_wallet"}

Guard(lock, mode) == [lock |-> lock, mode |-> mode]

\* add_wallet taking its two locks in the other order.
LockPlanMappingFirst(op) ==
    CASE op = "select_wallet" ->
             <<Guard("wallets", "read"), Guard("wallet_metrics", "read"),
               Guard("strategy_wallet_mapping", "read")>>
      [] op = "add_wallet" ->
             <<Guard("strategy_wallet_mapping", "write"), Guard("wallets", "write")>>
      [] op = "update_wallet_metrics" -> <<Guard("wallet_metrics", "write")>>
      [] op = "get_wallet_keypair" -> <<Guard("wallets", "read")>>
      [] op = "get_portfolio_summary" ->
             <<Guard("wallets", "read"), Guard("wallet_metrics", "read"),
               Guard("active_positions", "read")>>
      [] op \in {"emergency_stop_all", "reactivate_wallet"} ->
             <<Guard("wallets", "write")>>

\* The guards each method takes, in the order of its .read().await and
\* .write().await; all of them are dropped when the method returns.
LockPlan(op) ==
    CASE op = "select_wallet" ->
             <<Guard("wallets", "read"), Guard("wallet_metrics", "read"),
               Guard("strategy_wallet_mapping", "read")>>
      [] op = "add_wallet" ->
             <<Guard("wallets", "write"), Guard("strategy_wallet_mapping", "write")>>
      [] op = "update_wallet_metrics" -> <<Guard("wallet_metrics", "write")>>
      [] op = "get_wallet_keypair" -> <<Guard("wallets", "read")>>
      [] op = "get_portfolio_summary" ->
             <<Guard("wallets", "read"), Guard("wallet_metrics", "read"),
               Guard("active_positions", "read")>>
      [] op \in {"emergency_stop_all", "reactivate_wallet"} ->
             <<Guard("wallets", "write")>>

Waiting(c) == \E l \in Locks : \E i \in DOMAIN lock_queue[l] : lock_queue[l][i] = c

\* The guard the caller asks for next, and the mode in which it holds a lock.
NextGuard(c) == LockPlan(call[c])[held[c] + 1]

HeldMode(c, l) ==
    LET plan == LockPlan(call[c])
    IN plan[CHOOSE i \in DOMAIN plan : plan[i].lock = l].mode

\* A fair RwLock grants a guard to the first waiter only: a reader that arrives
\* after a waiting writer waits behind it.
Grantable(l) ==
    /\ lock_queue[l] # <<>>
    /\ IF NextGuard(Head(lock_queue[l])).mode = "write"
       THEN lock_holders[l] = {}
       ELSE \A h \in lock_holders[l] : HeldMode(h, l) = "read"

UnchangedByLocks ==
    /\ UNCHANGED <<trading_mode, hft_mode_enabled>>
    /\ UNCHANGED pipeline_vars
    /\ UNCHANGED wallet_vars
    /\ UNCHANGED mw_vars
    /\ UNCHANGED ingest_vars
    /\ UNCHANGED sup_vars
    /\ UNCHANGED bridge_vars

\* A task calls a method of the shared manager.
LockCall(c, op) ==
    /\ call[c] = "idle"
    /\ calls_started < MaxCalls
    /\ call' = [call EXCEPT ![c] = op]
    /\ calls_started' = calls_started + 1
    /\ UNCHANGED <<held, lock_holders, lock_queue>>
    /\ UnchangedByLocks

\* The method reaches its next .read().await or .write().await.
LockRequest(c) ==
    /\ call[c] # "idle"
    /\ ~Waiting(c)
    /\ held[c] < Len(LockPlan(call[c]))
    /\ lock_queue' = [lock_queue EXCEPT ![NextGuard(c).lock] = Append(@, c)]
    /\ UNCHANGED <<call, held, lock_holders, calls_started>>
    /\ UnchangedByLocks

\* The lock hands its first waiter the guard.
LockGrant(l) ==
    /\ Grantable(l)
    /\ lock_holders' = [lock_holders EXCEPT ![l] = @ \cup {Head(lock_queue[l])}]
    /\ lock_queue' = [lock_queue EXCEPT ![l] = Tail(@)]
    /\ held' = [held EXCEPT ![Head(lock_queue[l])] = @ + 1]
    /\ UNCHANGED <<call, calls_started>>
    /\ UnchangedByLocks

\* The method returns and its guards are dropped.
LockReturn(c) ==
    /\ call[c] # "idle"
    /\ held[c] = Len(LockPlan(call[c]))
    /\ lock_holders' = [l \in Locks |-> lock_holders[l] \ {c}]
    /\ call' = [call EXCEPT ![c] = "idle"]
    /\ held' = [held EXCEPT ![c] = 0]
    /\ UNCHANGED <<lock_queue, calls_started>>
    /\ UnchangedByLocks

InitLock == Init /\ trading_mode = "Paper" /\ ~hft_mode_enabled

NextLock ==
    \/ \E c \in Callers, op \in Operations : LockCall(c, op)
    \/ \E c \in Callers : LockRequest(c)
    \/ \E l \in Locks : LockGrant(l)
    \/ \E c \in Callers : LockReturn(c)

SpecLock == InitLock /\ [][NextLock]_vars

\* The runtime polls every task that can proceed, and a lock wakes its first
\* waiter as soon as the guard can be granted.
SpecLockFair ==
    /\ SpecLock
    /\ \A c \in Callers : WF_vars(LockRequest(c)) /\ WF_vars(LockReturn(c))
    /\ \A l \in Locks : WF_vars(LockGrant(l))

(***************************************************************************)
(* MultiWalletExecutor (multi_wallet_executor.rs)                          *)
(***************************************************************************)
FallbackChoices == {None, "w1", "w3"}

InitMW ==
    /\ trading_mode \in {"Paper", "Live"}
    /\ hft_mode_enabled \in BOOLEAN
    /\ fallback_wallet_id \in FallbackChoices
    /\ InitPipeline
    /\ InitWalletManager
    /\ InitMultiWallet
    /\ InitExt

determine_preferred_wallet_type(st) ==
    CASE st = "Arbitrage" -> "Arbitrage"
      [] st = "TokenSniping" -> "HFT"
      [] st \in {"MomentumTrading", "AIDecision"} -> "Primary"
      [] OTHER -> "Experimental"

criteria_for(signal) ==
    [strategy_type |-> signal.original_signal.strategy_type,
     required_balance |->
         signal.approved_quantity * signal.original_signal.target_price * 11,
     preferred_wallet_type |->
         determine_preferred_wallet_type(signal.original_signal.strategy_type),
     exclude_wallets |-> {}]

\* The selection under tokio::time::timeout: the timer may win.
select_wallet_for_signal(w, wm, mapping, signal, timed_out) ==
    IF timed_out THEN Selection(FALSE, None, 0)
    ELSE select_wallet(w, wm, mapping, criteria_for(signal))

status_in_registry(w, id) == IF id \in DOMAIN w THEN w[id].status ELSE "Unregistered"

update_execution_stats(stats, result) ==
    LET wallet_id == result.transaction_id[1]
    IN [total_executions |-> stats.total_executions + 1,
        successful_executions |->
            stats.successful_executions + IF result.status = "Confirmed" THEN 1 ELSE 0,
        failed_executions |->
            stats.failed_executions + IF result.status = "Failed" THEN 1 ELSE 0,
        wallet_usage |->
            insert(stats.wallet_usage, wallet_id,
                   IF wallet_id \in DOMAIN stats.wallet_usage
                   THEN stats.wallet_usage[wallet_id] + 1 ELSE 1)]

\* A holder of the execution sender hands the executor one ApprovedSignal, as
\* the RiskManager builds it.
SendApproved ==
    /\ next_signal_id < MaxRouted
    /\ \E st \in StrategyTypes :
         execution_queue' = execution_queue
             \o evaluate_signal(TradingSignal(next_signal_id + 1, 100, 100, 60, st))
    /\ next_signal_id' = next_signal_id + 1
    /\ UNCHANGED <<trading_mode, hft_mode_enabled, signal_queue, persistence_queue,
                   daily_pnl, rejected, metrics, taken, sent, last_exec>>
    /\ UNCHANGED wallet_vars
    /\ UNCHANGED mw_vars
    /\ UNCHANGED ext_vars

\* process_signal, step 1: receive one signal and route it.
MWSelect ==
    /\ mw_pc = "idle"
    /\ execution_queue # <<>>
    /\ \E timed_out \in BOOLEAN :
         LET signal == Head(execution_queue)
             sel == select_wallet_for_signal(wallets, wallet_metrics,
                        strategy_wallet_mapping, signal, timed_out)
             use_fallback == ~sel.ok /\ fallback_wallet_id # None
             routed == sel.ok \/ use_fallback
         IN /\ mw_routed' =
                 IF sel.ok
                 THEN [signal |-> <<signal>>, selected_wallet_id |-> sel.wallet_id,
                       reason |-> "Best score"]
                 ELSE IF use_fallback
                 THEN [signal |-> <<signal>>, selected_wallet_id |-> fallback_wallet_id,
                       reason |-> "Fallback due to selection failure"]
                 ELSE NoRoute
            /\ mw_pc' = IF routed THEN "routed" ELSE "idle"
            /\ mw_last' = [signal_id |-> signal.original_signal.signal_id,
                           selected |-> sel.ok,
                           via_fallback |-> use_fallback,
                           fallback_status |->
                               IF use_fallback
                               THEN status_in_registry(wallets, fallback_wallet_id)
                               ELSE None,
                           fetched |-> FALSE, fetch_status |-> None,
                           outcome |-> IF routed THEN None ELSE "Err"]
            /\ taken' = taken \cup {signal.original_signal.signal_id}
    /\ execution_queue' = Tail(execution_queue)
    /\ UNCHANGED <<trading_mode, hft_mode_enabled, signal_queue, persistence_queue,
                   daily_pnl, rejected, metrics, next_signal_id, sent, last_exec>>
    /\ UNCHANGED wallet_vars
    /\ UNCHANGED <<fallback_wallet_id, execution_stats>>
    /\ UNCHANGED ext_vars

\* execute_routed_signal, first half: take the manager's lock again and fetch
\* the keypair of the routed wallet.
MWFetchKeypair ==
    /\ mw_pc = "routed"
    /\ LET id == mw_routed.selected_wallet_id
           found == get_wallet_keypair(wallets, id)
       IN /\ mw_pc' = IF found THEN "fetched" ELSE "idle"
          /\ mw_routed' = IF found THEN mw_routed ELSE NoRoute
          /\ mw_last' = [mw_last EXCEPT
                           !.fetched = found,
                           !.fetch_status = status_in_registry(wallets, id),
                           !.outcome = IF found THEN None ELSE "Err"]
    /\ UNCHANGED <<trading_mode, hft_mode_enabled>>
    /\ UNCHANGED pipeline_vars
    /\ UNCHANGED wallet_vars
    /\ UNCHANGED <<fallback_wallet_id, execution_stats>>
    /\ UNCHANGED ext_vars

\* execute_routed_signal, second half, and steps 3 and 4 of process_signal.
MWExecute ==
    /\ mw_pc = "fetched"
    /\ \E inf \in IF hft_mode_enabled THEN InferenceResponses ELSE {NoInference} :
       \E bun \in IF hft_mode_enabled /\ reaches_bundle(inf)
                  THEN BundleResponses ELSE {NoBundle} :
         LET signal == mw_routed.signal[1]
             hft == IF hft_mode_enabled THEN execute_ai_signal(metrics, inf, bun)
                    ELSE NoHFT
             traded == trade_result_with_wallet(trading_mode, hft_mode_enabled, signal, hft)
             result == [traded EXCEPT
                          !.transaction_id = <<mw_routed.selected_wallet_id>> \o @]
         IN /\ metrics' = IF hft_mode_enabled THEN hft.metrics ELSE metrics
            /\ execution_stats' = update_execution_stats(execution_stats, result)
            /\ persistence_queue' = send_result(persistence_queue, result)
            /\ sent' = sent \o signal_ids(send_result(<<>>, result))
            /\ last_exec' = [signal |-> signal,
                             inf |-> IF hft_mode_enabled THEN inf ELSE NoInference,
                             hft |-> [hft EXCEPT !.metrics = HFTMetricsDefault],
                             live_trade |-> ran_live_trade(trading_mode, hft_mode_enabled, hft),
                             result |-> result]
    /\ mw_pc' = "idle"
    /\ mw_routed' = NoRoute
    /\ mw_last' = [mw_last EXCEPT !.outcome = "Result"]
    /\ UNCHANGED <<trading_mode, hft_mode_enabled, signal_queue, execution_queue,
                   daily_pnl, rejected, next_signal_id, taken>>
    /\ UNCHANGED wallet_vars
    /\ UNCHANGED fallback_wallet_id
    /\ UNCHANGED ext_vars

NextMW == SendApproved \/ MWSelect \/ MWFetchKeypair \/ MWExecute \/ PersistenceStore
          \/ Initialize(RoutedWalletConfigs) \/ AddWallet(RoutedWalletConfigs)
          \/ UpdateWalletMetrics \/ EmergencyStopAll \/ ReactivateWallet

SpecMW == InitMW /\ [][NextMW]_vars

\* Routing on its own, over wallets with the limits create_risk_limits gives the
\* "experimental" profile at max_allocation 0.1 (max_position_size 500 * 0.1)
\* and wallets with the default limits.
ExperimentalRiskLimits ==
    [max_daily_loss |-> 5, max_position_size |-> 50, max_exposure_percentage |-> 10]

LimitedWalletConfigs ==
    {WalletConfig(id, "HFT", "Active", <<StrategyAllocation("TokenSniping", 60, TRUE)>>,
                  TRUE, limits) :
        id \in WalletIds, limits \in {ExperimentalRiskLimits, WalletRiskLimitsDefault}}

InitRoute == InitMW /\ trading_mode = "Paper" /\ ~hft_mode_enabled

NextRoute == Initialize(LimitedWalletConfigs) \/ SendApproved \/ MWSelect
             \/ MWFetchKeypair \/ MWExecute \/ PersistenceStore

SpecRoute == InitRoute /\ [][NextRoute]_vars

(***************************************************************************)
(* Properties                                                              *)
(***************************************************************************)
Occurrences(seq, x) == Cardinality({i \in DOMAIN seq : seq[i] = x})

\* C1: for every ApprovedSignal the Executor has taken, in every trading mode
\* and whatever inference and bundle submission answered, exactly one
\* ExecutionResult carrying that signal's id has been sent to persistence;
\* no result is sent for a signal the Executor has not taken.
C1_ExactlyOneResult ==
    \A id \in 1..next_signal_id :
        Occurrences(sent, id) = IF id \in taken THEN 1 ELSE 0

C1_Witness ==
    /\ trading_mode = "Live" /\ hft_mode_enabled
    /\ Len(sent) = 2
    /\ last_exec.hft.kind = "Err"

\* C3: the RiskManager approves a signal only if its confidence is at least
\* min_confidence_threshold.  A signal below the threshold is turned down: it
\* adds nothing to the execution channel, and no ApprovedSignal or
\* ExecutionResult ever carries its id.  A signal exactly at the threshold
\* (with a positive quantity, inside the daily loss limit) is approved.
C3_ConfidenceGate ==
    /\ [](/\ \A i \in DOMAIN execution_queue :
               /\ execution_queue[i].original_signal.confidence >= min_confidence_threshold
               /\ execution_queue[i].original_signal.signal_id \notin rejected
          /\ taken \cap rejected = {}
          /\ \A i \in DOMAIN sent : sent[i] \notin rejected)
    /\ [][RiskEvaluate =>
            LET signal == Head(signal_queue)
            IN /\ signal.confidence < min_confidence_threshold
                    => /\ execution_queue' = execution_queue
                       /\ signal.signal_id \in rejected'
               /\ (/\ signal.confidence = min_confidence_threshold
                   /\ signal.quantity > 0
                   /\ check_daily_loss_limits)
                    => /\ Len(execution_queue') = Len(execution_queue) + 1
                       /\ execution_queue'[Len(execution_queue')].original_signal = signal
                       /\ signal.signal_id \notin rejected']_vars

C3_Witness ==
    /\ rejected = {1}
    /\ sent = <<2>>
    /\ last_exec.signal.original_signal.confidence = min_confidence_threshold

\* C4: every ApprovedSignal the RiskManager emits has
\* 0 < approved_quantity <= original_signal.quantity and
\* approved_quantity <= max_position_size.
C4_ApprovedQuantityBounds ==
    \A i \in DOMAIN execution_queue :
        LET approved == execution_queue[i]
        IN /\ 0 < approved.approved_quantity
           /\ approved.approved_quantity <= approved.original_signal.quantity
           /\ approved.approved_quantity <= max_position_size

C4_Witness ==
    \E i \in DOMAIN execution_queue :
        /\ execution_queue[i].original_signal.quantity > max_position_size
        /\ execution_queue[i].approved_quantity = max_position_size

\* C5: whatever the criteria and the registry, a wallet returned by
\* select_wallet has status Active in the registry at the time of the call.
C5_SelectedIsActive ==
    last_selection.ok => last_selection.status = "Active"

\* A wallet is returned although a wallet that is not Active is a candidate of
\* the same call and scores higher.
C5_Witness ==
    /\ last_selection.ok
    /\ \E i \in DOMAIN strategy_wallet_mapping[last_selection.criteria.strategy_type] :
         LET id == strategy_wallet_mapping[last_selection.criteria.strategy_type][i]
             score(x) == calculate_wallet_score(wallets[x], metrics_of(wallet_metrics, x),
                                                last_selection.criteria)
         IN /\ id \notin last_selection.criteria.exclude_wallets
            /\ wallets[id].status \in {"Inactive", "Suspended", "Emergency", "Maintenance"}
            /\ score(id) > score(last_selection.wallet_id)

\* C2: when the MultiWalletExecutor has finished with a signal for which no
\* wallet could be selected and no fallback wallet was there to use, exactly
\* one ExecutionResult for that signal has been sent, with status Failed
\* and error NoSuitableWallet.
C2_FailedResultWhenNoWallet ==
    (/\ mw_pc = "idle"
     /\ mw_last.signal_id # 0
     /\ ~mw_last.selected
     /\ ~mw_last.via_fallback)
    => /\ Occurrences(sent, mw_last.signal_id) = 1
       /\ last_exec.result.signal_id = mw_last.signal_id
       /\ last_exec.result.status = "Failed"
       /\ last_exec.result.error_message = "NoSuitableWallet"

\* C6: a wallet whose keypair the MultiWalletExecutor has fetched was Active
\* in the registry at the moment of the fetch, on the normal and on the
\* fallback routing path, however emergency_stop_all, reactivate_wallet and
\* add_wallet interleave with the processing of the signal.
C6_ActiveAtKeypairFetch ==
    mw_last.fetched => mw_last.fetch_status = "Active"

\* C7: a signal whose wallet selection failed or timed out is executed on the
\* fallback wallet only if that wallet was Active when it was chosen;
\* otherwise no trade is executed for the signal.
C7_FallbackOnlyIfActive ==
    (mw_last.via_fallback /\ mw_last.outcome = "Result")
    => mw_last.fallback_status = "Active"

\* C8: in Live/AI mode, when the confidence of the inference decision is
\* below ai_confidence_threshold, the ExecutionResult of the intent has status
\* Skipped with an error that mentions the confidence, and no live trade is
\* executed for it.
C8_SkippedOnLowConfidence ==
    (/\ trading_mode = "Live" /\ hft_mode_enabled
     /\ last_exec.hft.kind = "Skipped")
    => /\ last_exec.result.status = "Skipped"
       /\ last_exec.result.error_message = "Low AI confidence"
       /\ ~last_exec.live_trade

\* An inference call that timed out, returned an error, or answered with a
\* text block that is no JSON object or lacks a required field.
InferenceFailed(inf) ==
    \/ inf.latency_ms > inference_deadline_ms
    \/ inf.kind \in {"unreachable", "http_error", "no_text", "not_json"}
    \/ inf.kind = "json" /\ (~inf.has_confidence \/ ~inf.complete)

\* C9: in Paper/AI mode, when the inference call times out, returns an error
\* or is malformed, the intent goes through the non-AI paper path: its result
\* is Confirmed with a fee of 0.1% of the notional.
C9_PaperFallbackOnInferenceFailure ==
    (/\ trading_mode = "Paper" /\ hft_mode_enabled
     /\ InferenceFailed(last_exec.inf))
    => /\ last_exec.result.status = "Confirmed"
       /\ last_exec.result.fees =
              last_exec.signal.approved_quantity
              * last_exec.signal.original_signal.target_price * 10

\* C10: when the bundle phase of an AI execution fails, by rejection or by
\* exceeding two thirds of the latency budget, the ExecutionResult of the
\* intent has status Failed and records no fill.
C10_FailedOnBundleFailure ==
    (/\ hft_mode_enabled
     /\ last_exec.hft.phase \in {"bundle_rejected", "bundle_timeout"})
    => /\ last_exec.result.status = "Failed"
       /\ last_exec.result.executed_quantity = 0

\* The share of registered wallets in Emergency status has reached
\* emergency_stop_threshold (a percentage of the registry).
EmergencyThresholdReached(w) ==
    /\ DOMAIN w # {}
    /\ Cardinality({id \in DOMAIN w : w[id].status = "Emergency"}) * 100
           >= emergency_stop_threshold * Cardinality(DOMAIN w)

\* C11: while the share of wallets in Emergency status is at or above
\* emergency_stop_threshold (so the engine-wide halt is set and no clear can
\* have happened), every ExecutionResult the MultiWalletExecutor emits for an
\* approved signal is Failed with error "halted" and no trade is executed.
C11_HaltedAtEmergencyThreshold ==
    [][(EmergencyThresholdReached(wallets) /\ MWExecute)
       => /\ last_exec'.result.status = "Failed"
          /\ last_exec'.result.error_message = "halted"
          /\ last_exec'.result.executed_quantity = 0]_vars

\* The cumulative daily P&L the registry holds for the wallet is at or below
\* minus the wallet's max_daily_loss.
AtDailyLossLimit(w, wm, id) ==
    /\ id \in DOMAIN w
    /\ id \in DOMAIN wm
    /\ wm[id].daily_pnl <= -(w[id].risk_limits.max_daily_loss)

\* C12: select_wallet never returns a wallet whose cumulative daily P&L is at
\* or below minus its max_daily_loss.
C12_NotSelectedAtDailyLossLimit ==
    last_selection.ok
    => ~AtDailyLossLimit(wallets, wallet_metrics, last_selection.wallet_id)

\* The fees of the results in a queue, in 1e-4 of the quote currency.
RECURSIVE FeesOf(_)
FeesOf(queue) ==
    IF queue = <<>> THEN 0 ELSE Head(queue).fees + FeesOf(Tail(queue))

\* C13: the pipeline only buys, so the realised daily P&L of the executed
\* trades is at most minus the fees they paid; once the fees of the results
\* on their way to persistence alone amount to max_daily_loss, RiskManager
\* approves no further signal.
C13_NoApprovalBeyondDailyLoss ==
    [][(FeesOf(persistence_queue) >= max_daily_loss * 10000 /\ RiskEvaluate)
       => execution_queue' = execution_queue]_vars

IsIncreasing(seq) == \A i, j \in DOMAIN seq : i < j => seq[i] < seq[j]

approved_ids(queue) == [i \in 1..Len(queue) |-> queue[i].original_signal.signal_id]

\* C14: signal ids are handed out in the order in which the TradingSignals
\* are emitted.  The results sent to persistence, and the messages waiting in
\* the three queues taken from the persistence end to the signal end, are
\* always in that order, and PersistenceManager receives the oldest result of
\* its queue: ExecutionResults reach persistence in the order in which
\* RiskManager emitted their ApprovedSignals, which is the order in which the
\* TradingSignals were emitted.
C14_FifoOrder ==
    /\ [](/\ IsIncreasing(sent)
          /\ IsIncreasing(signal_ids(persistence_queue)
                          \o approved_ids(execution_queue)
                          \o signal_ids(signal_queue)))
    /\ [][PersistenceStore
          => \A i \in DOMAIN persistence_queue' :
                 Head(persistence_queue).signal_id < persistence_queue'[i].signal_id]_vars

\* Two results wait for persistence, behind one another.
C14_Witness ==
    /\ Len(persistence_queue) = 2
    /\ sent = <<1, 2>>

\* C15: with a capacity of QueueCapacity messages for each of the
\* strategy-to-risk, risk-to-executor and executor-to-persistence queues, a
\* producer that finds its queue full waits, so that no queue ever holds
\* more than QueueCapacity messages.
C15_QueuesWithinCapacity ==
    /\ Len(signal_queue) <= QueueCapacity
    /\ Len(execution_queue) <= QueueCapacity
    /\ Len(persistence_queue) <= QueueCapacity

\* C16: with a capacity of QueueCapacity ticks for the ingest-to-strategy
\* queue, a tick sent while the queue is full replaces the oldest queued
\* tick: the queue keeps its length, loses its head and ends with the new tick.
C16_DropOldestWhenFull ==
    [][(Len(market_data_queue) >= QueueCapacity /\ IngestTick)
       => /\ Len(market_data_queue') = Len(market_data_queue)
          /\ SubSeq(market_data_queue', 1, Len(market_data_queue) - 1)
                 = Tail(market_data_queue)]_vars

\* C17: once main has returned and the pipeline shuts down, a stage from
\* ingest to executor stops only when every stage downstream of it, up to the
\* executor, has stopped, and it does not stop in the middle of a message.
C17_DownstreamFirstShutdown ==
    [][\A i \in 1..4 :
         (/\ main_pc # "joining"
          /\ task[Stages[i]] \in {"waiting", "handling"}
          /\ task'[Stages[i]] \notin {"waiting", "handling"})
         => /\ task[Stages[i]] # "handling"
            /\ \A d \in (i + 1)..4 : ~Alive(Stages[d])]_vars

PipelineDown ==
    /\ main_pc # "joining"
    /\ \A s \in StageNames : ~Alive(s)

\* C18: once a task has ended, by a panic or by returning from start (the
\* RiskManager with the error of a failed send, the DataIngestor after one),
\* main returns and every other task stops.
C18_StageExitShutsDown ==
    \A s \in StageNames : (task[s] \in {"panicked", "returned"}) ~> PipelineDown

\* The RiskManager's start has returned an error, and the pipeline is down.
C18_Witness ==
    /\ task["risk_manager"] = "returned"
    /\ PipelineDown

\* C19: the bridge puts a signal on its channel only for a command it has
\* just read whose age is at most max_decision_age, whose confidence is at
\* least confidence_threshold and whose action is not Hold; it puts one
\* signal at a time, no two signals come from the same command, and the
\* signal carries the command's id and the strategy tag AIDecision.
C19_BridgeForwardsOnlyValid ==
    /\ [](\A i, j \in DOMAIN decision_queue :
            /\ decision_queue[i].strategy_type = "AIDecision"
            /\ i # j => decision_queue[i].signal_id # decision_queue[j].signal_id)
    /\ [][decision_queue' # decision_queue
          => /\ trading_commands # <<>>
             /\ decision_queue' = Append(decision_queue,
                                         decision_queue'[Len(decision_queue')])
             /\ LET command == Head(trading_commands)
                    signal == decision_queue'[Len(decision_queue')]
                IN /\ last_listen'.command = command
                   /\ command.decodable
                   /\ last_listen'.age <= max_decision_age
                   /\ command.confidence >= confidence_threshold
                   /\ command.action # "Hold"
                   /\ signal.signal_id = command.decision_id
                   /\ signal.strategy_type = "AIDecision"]_vars

\* A command exactly max_decision_age old and exactly at the confidence
\* threshold has been forwarded.
C19_Witness ==
    /\ last_listen.outcome = "forwarded"
    /\ last_listen.age = max_decision_age
    /\ last_listen.command.confidence = confidence_threshold
    /\ decision_queue # <<>>

\* A decodable command the listener would forward: fresh, confident, not Hold.
ValidCommand(command, age) ==
    /\ command.decodable
    /\ age <= max_decision_age
    /\ command.confidence >= confidence_threshold
    /\ command.action # "Hold"

\* C20: whatever has failed in the bridge (the queue store, the decoding of a
\* command, the health handshake, the send on a closed channel), the listener
\* and the health monitor keep running and no pipeline task is touched; and a
\* valid command read after a failure is converted: its signal is put on the
\* channel, or, the receiver being gone, the send of the signal fails.
C20_BridgeFailuresDoNotStop ==
    /\ [](/\ listener_pc = "listening"
          /\ monitor_pc = "monitoring"
          /\ \A s \in StageNames : Alive(s))
    /\ [][(/\ bridge_failed
           /\ BrainListen
           /\ trading_commands # <<>>
           /\ last_listen'.command = Head(trading_commands)
           /\ ValidCommand(Head(trading_commands), last_listen'.age))
          => IF decision_rx_open
             THEN decision_queue' =
                      decision_queue \o convert_ai_decision_to_signal(Head(trading_commands))
             ELSE last_listen'.outcome = "send_failed"]_vars

\* The first command failed, the second has been forwarded.
C20_Witness ==
    /\ bridge_failed
    /\ last_listen.outcome = "forwarded"
    /\ last_listen.command.decision_id = 2
    /\ Len(decision_queue) = 1

\* C21: when the text block of an inference response that arrived in time is
\* a JSON object that lacks a required field, or carries a malformed one, the
\* inference call fails as malformed: the engine returns an error of the
\* inference phase and no default stands in for the field.
C21_MalformedInferenceFails ==
    (/\ hft_mode_enabled
     /\ last_exec.inf.kind = "json"
     /\ last_exec.inf.latency_ms <= inference_deadline_ms
     /\ (~last_exec.inf.has_confidence \/ ~last_exec.inf.complete))
    => /\ last_exec.hft.kind = "Err"
       /\ last_exec.hft.phase = "inference_malformed"
       /\ ~last_exec.hft.defaulted

\* A transaction id, kept as the sequence of its parts, is a non-empty text.
NonEmptyId(transaction_id) ==
    \E i \in DOMAIN transaction_id : transaction_id[i] # ""

\* C22: every ExecutionResult with status Confirmed, on its way to
\* persistence or just emitted, carries a non-empty transaction or bundle id.
C22_ConfirmedHasId ==
    /\ last_exec.result.status = "Confirmed"
           => NonEmptyId(last_exec.result.transaction_id)
    /\ \A i \in DOMAIN persistence_queue :
           persistence_queue[i].status = "Confirmed"
               => NonEmptyId(persistence_queue[i].transaction_id)

\* The candidates select_wallet may return for the criteria: mapped to the
\* strategy, not excluded, registered, Active and of the preferred type.
Eligible(criteria) ==
    {id \in {strategy_wallet_mapping[criteria.strategy_type][i] :
                 i \in DOMAIN strategy_wallet_mapping[criteria.strategy_type]} :
        /\ id \notin criteria.exclude_wallets
        /\ id \in DOMAIN wallets
        /\ wallets[id].status = "Active"
        /\ criteria.preferred_wallet_type \in {None, wallets[id].wallet_type}}

ScoreOf(id, criteria) ==
    calculate_wallet_score(wallets[id], metrics_of(wallet_metrics, id), criteria)

\* The recorded risk utilization of a wallet; none recorded counts as none used.
UtilizationOf(id) ==
    IF id \in DOMAIN wallet_metrics THEN wallet_metrics[id].risk_utilization ELSE 0

\* The order of the wallet ids "w1" < "w2".
IdAtMost(a, b) == a = b \/ (a = "w1" /\ b = "w2")

\* C23: the wallet select_wallet returns is, among the eligible candidates,
\* the one with the highest score, then the lowest risk utilization, then the
\* smallest id, whatever the order of registration.
C23_BestCandidateWithTieBreak ==
    last_selection.ok
    => \A id \in Eligible(last_selection.criteria) :
         LET chosen == last_selection.wallet_id
             criteria == last_selection.criteria
         IN \/ ScoreOf(chosen, criteria) > ScoreOf(id, criteria)
            \/ /\ ScoreOf(chosen, criteria) = ScoreOf(id, criteria)
               /\ \/ UtilizationOf(chosen) < UtilizationOf(id)
                  \/ /\ UtilizationOf(chosen) = UtilizationOf(id)
                     /\ IdAtMost(chosen, id)

RECURSIVE EnabledFor(_, _)
EnabledFor(allocation, st) ==
    /\ allocation # <<>>
    /\ \/ (Head(allocation).strategy_type = st /\ Head(allocation).enabled)
       \/ EnabledFor(Tail(allocation), st)

\* C24: the wallet select_wallet returns for a strategy has that strategy
\* enabled in the allocation the registry holds for it now, also after
\* add_wallet was called with an id that was registered before.
C24_SelectedHasStrategyEnabled ==
    last_selection.ok
    => EnabledFor(wallets[last_selection.wallet_id].strategy_allocation,
                  last_selection.criteria.strategy_type)

\* C26: whatever initialize and add_wallet calls were made, the enabled
\* allocation percentages of every registered wallet sum to at most 100.
C26_EnabledAllocationAtMost100 ==
    \A id \in DOMAIN wallets : SumEnabled(wallets[id].strategy_allocation) <= 100

\* Two administrative calls were made and a wallet is registered whose enabled
\* allocations add up to exactly 100.
C26_Witness ==
    /\ admin_calls > 1
    /\ \E id \in DOMAIN wallets : SumEnabled(wallets[id].strategy_allocation) = 100

\* C25: the approved quantity of a signal routed to a wallet is at most the
\* max_position_size of that wallet's risk limits.
C25_RoutedWithinWalletPositionLimit ==
    (mw_pc \in {"routed", "fetched"} /\ mw_routed.selected_wallet_id \in DOMAIN wallets)
    => mw_routed.signal[1].approved_quantity
           <= wallets[mw_routed.selected_wallet_id].risk_limits.max_position_size

\* assert_signal_valid, on the model's signals (ids are positive numbers,
\* confidence is in percent).
SignalValid(signal) ==
    /\ signal.signal_id > 0
    /\ signal.quantity > 0
    /\ signal.target_price > 0
    /\ signal.confidence >= 0
    /\ signal.confidence <= 100

\* C27: every signal on its way to the risk gate, from the strategy stage
\* (signal_queue) or from the inference bridge (decision_queue), has an id,
\* a positive quantity, a positive target price and a confidence in [0,1].
C27_SignalsToRiskGateValid ==
    /\ \A i \in DOMAIN signal_queue : SignalValid(signal_queue[i])
    /\ \A i \in DOMAIN decision_queue : SignalValid(decision_queue[i])

\* The engine was handed a signal in this step and the inference answered in
\* time with a JSON decision.
DecisionMade ==
    /\ hft_mode_enabled
    /\ last_exec' # last_exec
    /\ last_exec'.inf.kind = "json"
    /\ last_exec'.inf.latency_ms <= inference_deadline_ms

\* C28: execute_ai_signal submits a bundle and answers Executed only for a
\* decision whose confidence is at least ai_confidence_threshold; a decision
\* below the threshold is answered with Skipped and a reason that mentions the
\* confidence, and bundles_submitted stays as it was; a decision at the
\* threshold is not skipped.
C28_ExecutedOnlyAtOrAboveThreshold ==
    [][DecisionMade =>
         LET hft == last_exec'.hft
             confidence == parse_ai_response(last_exec'.inf).confidence
         IN /\ (hft.kind = "Executed" \/
                metrics'.bundles_submitted # metrics.bundles_submitted)
                   => confidence >= ai_confidence_threshold
            /\ hft.kind = "Executed"
                   => metrics'.bundles_submitted = metrics.bundles_submitted + 1
            /\ confidence < ai_confidence_threshold
                   => /\ hft.kind = "Skipped"
                      /\ hft.phase = "Low AI confidence"
                      /\ metrics'.bundles_submitted = metrics.bundles_submitted
            /\ confidence >= ai_confidence_threshold => hft.kind # "Skipped"]_vars

\* A decision with a confidence equal to the threshold was executed.
C28_Witness ==
    /\ hft_mode_enabled
    /\ last_exec.hft.kind = "Executed"
    /\ last_exec.hft.ai_confidence = ai_confidence_threshold
    /\ metrics.bundles_submitted > 0

\* C29: concurrent calls on one WalletManager never deadlock under fair
\* (writer-preferring) read-write locks: every call that starts returns.
C29_EveryCallReturns ==
    \A c \in Callers : (call[c] # "idle") ~> (call[c] = "idle")

\* A reader holds a lock, a writer waits for it, and a second reader waits
\* behind the writer.
C29_Witness ==
    \E l \in Locks :
        /\ lock_holders[l] # {}
        /\ \A h \in lock_holders[l] : HeldMode(h, l) = "read"
        /\ Len(lock_queue[l]) > 1
        /\ NextGuard(lock_queue[l][1]).mode = "write"
        /\ NextGuard(lock_queue[l][2]).mode = "read"

\* emergency_stop_all has been called and no wallet is Active since: some
\* wallet is in Emergency (a status only emergency_stop_all sets) and none
\* is Active.
Halted ==
    /\ \E id \in DOMAIN wallets : wallets[id].status = "Emergency"
    /\ \A id \in DOMAIN wallets : wallets[id].status # "Active"

\* C30: after emergency_stop_all and until a wallet is reactivated or added,
\* the MultiWalletExecutor executes no trade and emits no Confirmed
\* ExecutionResult, on the normal and on the fallback routing path.
C30_NoTradeWhileHalted ==
    [][(Halted /\ mw_pc = "fetched" /\ mw_pc' = "idle")
          => last_exec'.result.status # "Confirmed"]_vars

\* The wallet is registered before and after the step, and the step changes
\* nothing of it but, possibly, its status.
SameButStatus(id) ==
    /\ id \in DOMAIN wallets'
    /\ [wallets'[id] EXCEPT !.status = wallets[id].status] = wallets[id]

C32_ClosedInputReturns ==
    \A s \in {"strategy_engine", "risk_manager", "executor"} : task[s] # "spinning"

\* C33: in Paper mode, with or without the HFT engine, no bundle is submitted:
\* bundles_submitted stays 0.
C33_NoBundleInPaperMode ==
    trading_mode = "Paper" => metrics.bundles_submitted = 0

\* The score of the formula, in the units of calculate_risk_score (times 1000
\* and times max_position_size), with the per-strategy addend of the code's
\* table as its third term.
ExpectedRiskScore(approved) ==
    LET raw == (100 - approved.original_signal.confidence) * 4 * max_position_size
               + approved.approved_quantity * 300
               + strategy_risk_weight(approved.original_signal.strategy_type)
                     * max_position_size
    IN IF raw < 0 THEN 0 ELSE Min(raw, 1000 * max_position_size)

\* C36: the risk_score of every ApprovedSignal is 0.4*(1 - confidence)
\* + 0.3*(approved_quantity / max_position_size) + the strategy's risk term,
\* clamped to [0,1].
C36_RiskScoreFormula ==
    \A i \in DOMAIN execution_queue :
        execution_queue[i].risk_score = ExpectedRiskScore(execution_queue[i])

\* C34: select_wallet fails only when the strategy has no eligible candidate
\* (mapped, not excluded, Active, of the preferred type); when there is one
\* it returns an eligible candidate, whatever the metrics are.
C34_EligibleCandidateIsReturned ==
    last_selection.criteria.strategy_type \in StrategyTypes
    => /\ Eligible(last_selection.criteria) # {} => last_selection.ok
       /\ last_selection.ok
              => last_selection.wallet_id \in Eligible(last_selection.criteria)

\* The step is initialize called with the two descriptors.
InitializedWith(c1, c2) ==
    LET reg == initialize(CurrentRegistry, <<c1, c2>>)
    IN /\ admin_calls = 0
       /\ admin_calls' = 1
       /\ wallets' = reg.wallets
       /\ strategy_wallet_mapping' = reg.mapping
       /\ default_wallet_id' = reg.default

\* C35: initialize called with a list that holds an invalid descriptor leaves
\* the registry as it was: no wallet registered, no mapping entry added, no
\* default wallet set.
C35_InitializeAllOrNothing ==
    [][\A c1 \in RegistryConfigs, c2 \in RegistryConfigs :
          (/\ ~validate_wallet_config(c1) \/ ~validate_wallet_config(c2)
           /\ InitializedWith(c1, c2))
          => UNCHANGED <<wallets, strategy_wallet_mapping, default_wallet_id>>]_vars

AllWalletTypes ==
    {"Primary", "HFT", "Secondary", "Arbitrage", "Conservative", "MEVProtection",
     "Experimental", "Emergency"}

\* The percentage of the wallet's enabled allocation for the strategy, 0 when
\* it has none.
EnabledPercentage(config, st) ==
    LET allocation == config.strategy_allocation
        enabled == {i \in DOMAIN allocation :
                       allocation[i].strategy_type = st /\ allocation[i].enabled}
    IN IF enabled = {} THEN 0
       ELSE allocation[CHOOSE i \in enabled : \A j \in enabled : i <= j]
                .allocation_percentage

\* The score of the formula, times 20.
ExpectedWalletScore(id, criteria) ==
    20 * base_score(wallets[id].wallet_type)
    + 2 * EnabledPercentage(wallets[id], criteria.strategy_type)
    + IF id \notin DOMAIN wallet_metrics THEN 0
      ELSE (IF wallet_metrics[id].sol_balance >= criteria.required_balance
            THEN 100 ELSE 0)
           + 20 * (IF wallet_metrics[id].performance_score < 5
                   THEN wallet_metrics[id].performance_score ELSE 5)
           + (100 - wallet_metrics[id].risk_utilization)

\* C37: calculate_wallet_score is base(type) + enabled allocation / 10
\* + 5 for a sufficient balance + min(performance_score, 5)
\* + (100 - risk_utilization) / 20, the last three terms being 0 for a wallet
\* without metrics; base is strictly highest for Primary and strictly lowest
\* for Emergency.
C37_WalletScoreFormula ==
    /\ \A id \in DOMAIN wallets, criteria \in SelectionCriteria :
         ScoreOf(id, criteria) = ExpectedWalletScore(id, criteria)
    /\ \A ty \in AllWalletTypes \ {"Primary"} : base_score(ty) < base_score("Primary")
    /\ \A ty \in AllWalletTypes \ {"Emergency"} : base_score(ty) > base_score("Emergency")

\* select_wallet has returned a wallet whose performance score is above the cap,
\* while a wallet with a disabled allocation is registered.
C37_Witness ==
    /\ last_selection.ok
    /\ last_selection.wallet_id \in DOMAIN wallet_metrics
    /\ wallet_metrics[last_selection.wallet_id].performance_score > 5
    /\ \E id \in DOMAIN wallets :
         \E i \in DOMAIN wallets[id].strategy_allocation :
             ~wallets[id].strategy_allocation[i].enabled

\* C38: the strategy never emits two signals less than its cooldown apart.
\* The only clock of the pipeline is the 100 ms interval of the ingestor, so
\* time is counted in its turns: two signals emitted within the same turn are
\* closer together than any cooldown of one interval or more.
C38_SignalsACooldownApart == IsIncreasing(signal_times)

\* What the specification gives for calculate_slippage, in percent.
ExpectedSlippage(order_size, liquidity, price) ==
    IF liquidity <= 0 THEN 100
    ELSE LET capped == Min((order_size * 100) \div liquidity, 50)
             factor == CASE price < 10 -> 15
                         [] price >= 10 /\ price < 1000 -> 12
                         [] OTHER -> 10
         IN Min((capped * factor) \div 10, 100)

C40_MetricsCountOutcomes ==
    [][(ExecuteSignal /\ hft_mode_enabled) =>
          LET kind == last_exec'.hft.kind
              successful == metrics'.successful_executions - metrics.successful_executions
              failed == metrics'.failed_executions - metrics.failed_executions
              total == metrics'.total_executions - metrics.total_executions
          IN /\ successful = (IF kind = "Executed" THEN 1 ELSE 0)
             /\ failed = (IF kind = "Err" THEN 1 ELSE 0)
             /\ total = successful + failed]_vars

====
